---- MODULE Spec2Model ----
(***************************************************************************)
(* Model of the word-game engine of moominot/duplicat: the tile model, the *)
(* dictionary trie, the move validator/scorer (calculateMoveScore) and the *)
(* best-move finder (findBestMoves).                                       *)
(*                                                                         *)
(* Characters are one-character strings.  The non-ASCII characters of the  *)
(* source are written with ASCII names:                                    *)
(*    C-cedilla  "C~" / "c~"     L-stroke (L.L tile)  "L/" / "l/"          *)
(*    U-circumflex (QU tile) "U^" / "u^"   Y-acute (NY tile) "Y'" / "y'"   *)
(*    middle dot "*"             L-with-middle-dot    "L:"                 *)
(* A JavaScript string is a sequence of such characters.                   *)
(***************************************************************************)
EXTENDS Integers, Sequences, FiniteSets, TLC

\* ------------------------------------------------------------------------
\* Bounds of the model (not program constants)
\* ------------------------------------------------------------------------
MaxTiles == 2          \* longest candidate tile list handed to the validator
MaxLimit == 2          \* largest caller limit handed to findBestMoves

\* ------------------------------------------------------------------------
\* Program constants
\* ------------------------------------------------------------------------
BOARD_SIZE == 15
CENTER == 7
BINGO_TILES == 7
BINGO_BONUS == 50
SAFE_LIMIT == 5000

Null == [null |-> TRUE]

MidDot == "*"

Idx == 0 .. (BOARD_SIZE - 1)

InBoard(r, c) == r >= 0 /\ c >= 0 /\ r < BOARD_SIZE /\ c < BOARD_SIZE

\* ------------------------------------------------------------------------
\* Alphabet (types.ts, String.prototype.toUpperCase / toLowerCase)
\* ------------------------------------------------------------------------
UpperChars == <<"A","B","C","C~","D","E","F","G","H","I","J","K","L","L/","M",
                "N","O","P","Q","R","S","T","U","U^","V","W","X","Y","Y'","Z">>
LowerChars == <<"a","b","c","c~","d","e","f","g","h","i","j","k","l","l/","m",
                "n","o","p","q","r","s","t","u","u^","v","w","x","y","y'","z">>

CharIndex(seq, ch) ==
    IF \E i \in 1..Len(seq) : seq[i] = ch
    THEN CHOOSE i \in 1..Len(seq) : seq[i] = ch
    ELSE 0

toUpperCase(ch) ==
    LET i == CharIndex(LowerChars, ch) IN IF i = 0 THEN ch ELSE UpperChars[i]

toLowerCase(ch) ==
    LET i == CharIndex(UpperChars, ch) IN IF i = 0 THEN ch ELSE LowerChars[i]

DIGRAPH_MAP(s) ==
    IF s = <<"Q","U">> THEN "U^"
    ELSE IF s \in {<<"L",MidDot,"L">>, <<"L",".","L">>, <<"L","-","L">>, <<"L:","L">>}
         THEN "L/"
    ELSE IF s = <<"N","Y">> THEN "Y'"
    ELSE ""

REVERSE_DIGRAPH_MAP(ch) ==
    IF ch = "U^" THEN <<"Q","U">>
    ELSE IF ch = "L/" THEN <<"L",MidDot,"L">>
    ELSE IF ch = "Y'" THEN <<"N","Y">>
    ELSE <<>>

LETTER_VALUES(ch) ==
    IF ch \in {"A","E","I","R","S","N","O","T","L","U"} THEN 1
    ELSE IF ch \in {"C","D","M"} THEN 2
    ELSE IF ch \in {"B","G","P"} THEN 3
    ELSE IF ch \in {"F","V"} THEN 4
    ELSE IF ch \in {"H","J","Q","Z","U^"} THEN 8
    ELSE IF ch \in {"C~","X","L/","Y'"} THEN 10
    ELSE 0

\* Variant of createTile where a blank keeps the value of its letter
createTile_BlankKeepsValue(ch) ==
    LET upperChar == toUpperCase(ch)
    IN [char |-> ch,
        value |-> LETTER_VALUES(upperChar),
        isBlank |-> (ch = "?") \/ (ch = toLowerCase(ch) /\ toUpperCase(ch) # toLowerCase(ch)),
        displayChar |-> IF REVERSE_DIGRAPH_MAP(upperChar) # <<>>
                        THEN REVERSE_DIGRAPH_MAP(upperChar) ELSE <<upperChar>>]

\* createTile(char): a Tile from an internal character; lower case = blank.
createTile(ch) ==
    LET isBlank   == ch = toLowerCase(ch) /\ toUpperCase(ch) # toLowerCase(ch)
        upperChar == toUpperCase(ch)
        disp      == IF REVERSE_DIGRAPH_MAP(upperChar) # <<>>
                     THEN REVERSE_DIGRAPH_MAP(upperChar) ELSE <<upperChar>>
    IN IF ch = "?"
       THEN [char |-> "?", value |-> 0, isBlank |-> TRUE, displayChar |-> <<"?">>]
       ELSE [char |-> ch,
             value |-> IF isBlank THEN 0 ELSE LETTER_VALUES(upperChar),
             isBlank |-> isBlank,
             displayChar |-> disp]

\* ------------------------------------------------------------------------
\* Board (constants.ts, createInitialBoard)
\* ------------------------------------------------------------------------
TRIPLE_WORD_COORDS ==
    {<<0,0>>, <<0,7>>, <<0,14>>, <<7,0>>, <<7,14>>, <<14,0>>, <<14,7>>, <<14,14>>}

DOUBLE_WORD_COORDS ==
    {<<1,1>>, <<1,13>>, <<2,2>>, <<2,12>>, <<3,3>>, <<3,11>>, <<4,4>>, <<4,10>>,
     <<10,4>>, <<10,10>>, <<11,3>>, <<11,11>>, <<12,2>>, <<12,12>>, <<13,1>>, <<13,13>>}

TRIPLE_LETTER_COORDS ==
    {<<1,5>>, <<1,9>>, <<5,1>>, <<5,5>>, <<5,9>>, <<5,13>>,
     <<9,1>>, <<9,5>>, <<9,9>>, <<9,13>>, <<13,5>>, <<13,9>>}

DOUBLE_LETTER_COORDS ==
    {<<0,3>>, <<0,11>>, <<2,6>>, <<2,8>>, <<3,0>>, <<3,7>>, <<3,14>>,
     <<6,2>>, <<6,6>>, <<6,8>>, <<6,12>>, <<7,3>>, <<7,11>>,
     <<8,2>>, <<8,6>>, <<8,8>>, <<8,12>>, <<11,0>>, <<11,7>>, <<11,14>>,
     <<12,6>>, <<12,8>>, <<14,3>>, <<14,11>>}

\* Variant of createInitialBoard without the test for the center cell
createInitialBoard_NoCenter ==
    [r \in Idx |-> [c \in Idx |->
        [row |-> r, col |-> c,
         multiplier |->
            IF <<r,c>> \in TRIPLE_WORD_COORDS THEN "TripleWord"
            ELSE IF <<r,c>> \in DOUBLE_WORD_COORDS THEN "DoubleWord"
            ELSE IF <<r,c>> \in TRIPLE_LETTER_COORDS THEN "TripleLetter"
            ELSE IF <<r,c>> \in DOUBLE_LETTER_COORDS THEN "DoubleLetter"
            ELSE "Normal",
         tile |-> Null]]]

createInitialBoard ==
    [r \in Idx |-> [c \in Idx |->
        [row |-> r, col |-> c,
         multiplier |->
            IF r = CENTER /\ c = CENTER THEN "Center"
            ELSE IF <<r,c>> \in TRIPLE_WORD_COORDS THEN "TripleWord"
            ELSE IF <<r,c>> \in DOUBLE_WORD_COORDS THEN "DoubleWord"
            ELSE IF <<r,c>> \in TRIPLE_LETTER_COORDS THEN "TripleLetter"
            ELSE IF <<r,c>> \in DOUBLE_LETTER_COORDS THEN "DoubleLetter"
            ELSE "Normal",
         tile |-> Null]]]

getMultiplierVal(type, isWord) ==
    IF isWord
    THEN IF type \in {"DoubleWord", "Center"} THEN 2
         ELSE IF type = "TripleWord" THEN 3 ELSE 1
    ELSE IF type = "DoubleLetter" THEN 2
         ELSE IF type = "TripleLetter" THEN 3 ELSE 1

\* board[r][c].tile is truthy (reads inside the board only)
HasTile(bd, r, c) == InBoard(r, c) /\ bd[r][c].tile # Null


\* ------------------------------------------------------------------------
\* Succinct trie dictionary (FrozenTrie), at the level of its nodes: a node
\* is the path of trie characters leading to it; the children of a node are
\* stored in character-code order (digits before letters).
\* ------------------------------------------------------------------------
TRIE_ORDER == <<"1","2","3","A","B","C","D","E","F","G","H","I","J","K","L","M",
                "N","O","P","Q","R","S","T","U","V","W","X","Y","Z">>

Range(s) == {s[i] : i \in 1..Len(s)}

Prefixes(w) == {SubSeq(w, 1, n) : n \in 0..Len(w)}

\* new FrozenTrie(data.trie, data.directory, data.nodeCount), data encoding `words`
FrozenTrie(words) ==
    [nodes |-> UNION {Prefixes(w) : w \in words}, finals |-> words]

getRoot(trie) == <<>>

ChildLetters(trie, node) ==
    SelectSeq(TRIE_ORDER, LAMBDA ch : Append(node, ch) \in trie.nodes)

getChildCount(trie, node) == Len(ChildLetters(trie, node))

\* node.getChild(i), i counted from 0
getChild(trie, node, i) == Append(node, ChildLetters(trie, node)[i + 1])

NodeLetter(node) == node[Len(node)]

NodeFinal(trie, node) == node \in trie.finals

NoNode == <<"none">>

\* The child of `node` whose letter is ch, or NoNode: the result of the linear
\* scan over getChild(0..childCount-1) in lookup, findMovesInDirection and
\* extendRight (letters of siblings are distinct, so the first match is it).
FindChild(trie, node, ch) ==
    IF ch \in Range(ChildLetters(trie, node)) THEN Append(node, ch) ELSE NoNode

RECURSIVE LookupFrom(_, _, _, _)
LookupFrom(trie, node, word, i) ==
    IF i > Len(word) THEN NodeFinal(trie, node)
    ELSE LET child == FindChild(trie, node, word[i])
         IN IF child = NoNode THEN FALSE
            ELSE LookupFrom(trie, child, word, i + 1)

lookup(trie, word) == LookupFrom(trie, getRoot(trie), word, 1)

\* ------------------------------------------------------------------------
\* validateWord: a display string to trie characters, then lookup
\* ------------------------------------------------------------------------
MapSeq(s, F(_)) == [i \in 1..Len(s) |-> F(s[i])]

\* normalize("NFD") followed by removal of the combining marks
StripAccent(ch) ==
    IF ch = "U^" THEN "U" ELSE IF ch = "Y'" THEN "Y" ELSE ch

\* /Q(?!U)/.test(s)
QWithoutU(s) ==
    \E i \in 1..Len(s) : s[i] = "Q" /\ (i = Len(s) \/ s[i + 1] # "U")

Tail2(s) == SubSeq(s, 3, Len(s))
Tail3(s) == SubSeq(s, 4, Len(s))

\* replace(/L*L|L\.L|L-L|L:L/g, '2')
RECURSIVE ReplaceLL(_)
ReplaceLL(s) ==
    IF s = <<>> THEN <<>>
    ELSE IF Len(s) >= 3 /\ s[1] = "L" /\ s[2] \in {MidDot, ".", "-"} /\ s[3] = "L"
         THEN <<"2">> \o ReplaceLL(Tail3(s))
    ELSE IF Len(s) >= 2 /\ s[1] = "L:" /\ s[2] = "L"
         THEN <<"2">> \o ReplaceLL(Tail2(s))
    ELSE <<s[1]>> \o ReplaceLL(Tail(s))

\* replace(/<a><b>/g, to)
RECURSIVE ReplacePair(_, _, _, _)
ReplacePair(s, a, b, to) ==
    IF s = <<>> THEN <<>>
    ELSE IF Len(s) >= 2 /\ s[1] = a /\ s[2] = b
         THEN <<to>> \o ReplacePair(Tail2(s), a, b, to)
    ELSE <<s[1]>> \o ReplacePair(Tail(s), a, b, to)

Normalize(word) ==
    LET upper   == MapSeq(word, toUpperCase)
        cedilla == MapSeq(upper, LAMBDA ch : IF ch = "C~" THEN "1" ELSE ch)
        plain   == MapSeq(cedilla, StripAccent)
        ll      == ReplaceLL(plain)
        qu      == ReplacePair(ll, "Q", "U", "Q")
        ny      == ReplacePair(qu, "N", "Y", "3")
    IN [qWithoutU |-> QWithoutU(plain),
        normalized |-> SelectSeq(ny, LAMBDA ch : ch \notin {MidDot, "."})]

\* Variant of validateWord that rejects every word while no dictionary is loaded
validateWord_RejectUnloaded(trie, word) ==
    IF trie = Null THEN FALSE
    ELSE IF Normalize(word).qWithoutU THEN FALSE ELSE lookup(trie, Normalize(word).normalized)

\* Variant of validateWord that accepts every word
validateWord_AcceptAll(trie, word) == TRUE

validateWord(trie, word) ==
    IF trie = Null THEN TRUE
    ELSE LET n == Normalize(word)
         IN IF n.qWithoutU THEN FALSE ELSE lookup(trie, n.normalized)

\* ------------------------------------------------------------------------
\* Move validator and scorer
\* ------------------------------------------------------------------------
Dr(direction) == IF direction = "H" THEN 0 ELSE 1
Dc(direction) == IF direction = "H" THEN 1 ELSE 0

\* newTilesMap: the candidate's tiles keyed by the cell they are aimed at
NewTilesMap(tiles, startRow, startCol, dr, dc) ==
    [p \in {<<startRow + (i - 1) * dr, startCol + (i - 1) * dc>> : i \in 1..Len(tiles)}
        |-> tiles[IF dr = 1 THEN p[1] - startRow + 1 ELSE p[2] - startCol + 1]]

HasNewTile(newTilesMap, r, c) == <<r, c>> \in DOMAIN newTilesMap

\* getFullWordString, step 1: back to the true start of the word
RECURSIVE ScanBack(_, _, _, _, _, _)
ScanBack(bd, newTilesMap, currR, currC, dr, dc) ==
    IF HasTile(bd, currR - dr, currC - dc) \/ HasNewTile(newTilesMap, currR - dr, currC - dc)
    THEN ScanBack(bd, newTilesMap, currR - dr, currC - dc, dr, dc)
    ELSE <<currR, currC>>

\* getFullWordString, step 2: forward, collecting display characters
RECURSIVE ScanForward(_, _, _, _, _, _)
ScanForward(bd, newTilesMap, currR, currC, dr, dc) ==
    IF ~InBoard(currR, currC) THEN <<>>
    ELSE IF bd[currR][currC].tile # Null
         THEN bd[currR][currC].tile.displayChar
              \o ScanForward(bd, newTilesMap, currR + dr, currC + dc, dr, dc)
    ELSE IF HasNewTile(newTilesMap, currR, currC)
         THEN newTilesMap[<<currR, currC>>].displayChar
              \o ScanForward(bd, newTilesMap, currR + dr, currC + dc, dr, dc)
    ELSE <<>>

getFullWordString(bd, newTilesMap, startR, startC, dr, dc) ==
    LET start == ScanBack(bd, newTilesMap, startR, startC, dr, dc)
    IN ScanForward(bd, newTilesMap, start[1], start[2], dr, dc)

isBoardEmpty(bd) == \A r \in Idx : \A c \in Idx : bd[r][c].tile = Null

\* indexOf / splice on the rack
IndexOf(s, x) ==
    IF \E i \in 1..Len(s) : s[i] = x
    THEN CHOOSE i \in 1..Len(s) : s[i] = x /\ \A j \in 1..(i - 1) : s[j] # x
    ELSE 0

RemoveAt(s, i) == SubSeq(s, 1, i - 1) \o SubSeq(s, i + 1, Len(s))

\* Sum of the face values of the board tiles running from (r,c) in steps of
\* (dr,dc): the "scan backwards" / "scan forwards" loops of the cross word
RECURSIVE RunValue(_, _, _, _, _)
RunValue(bd, r, c, dr, dc) ==
    IF HasTile(bd, r, c)
    THEN bd[r][c].tile.value + RunValue(bd, r + dr, c + dc, dr, dc)
    ELSE 0

\* Results.  A ScoreResult is {score, isValid, error}; `thrown` marks a call
\* that ended in an exception instead of returning a ScoreResult.
Reject(err) == [score |-> 0, isValid |-> FALSE, error |-> err, thrown |-> FALSE]
Accept(n) == [score |-> n, isValid |-> TRUE, error |-> Null, thrown |-> FALSE]
Thrown == [score |-> 0, isValid |-> FALSE, error |-> [kind |-> "TypeError"], thrown |-> TRUE]

ErrOutOfBounds == [kind |-> "OutOfBounds"]
ErrCellConflict(r, c, onBoard, placed) ==
    [kind |-> "CellConflict", row |-> r, col |-> c, expected |-> onBoard, got |-> placed]
ErrMissingBlank(disp) == [kind |-> "MissingBlank", symbol |-> disp]
ErrMissingRackLetter(disp) == [kind |-> "MissingRackLetter", symbol |-> disp]
ErrMissingCenter == [kind |-> "MissingCenter"]
ErrTooShortFirstMove == [kind |-> "TooShortFirstMove"]
ErrNotConnected == [kind |-> "NotConnected"]
ErrInvalidWord(w) == [kind |-> "InvalidWord", word |-> w]

\* The accumulators of calculateMoveScore; ret is the early return, if any
\* Variant of SameLetter that compares the characters exactly
SameLetter_Exact(onBoard, placed) == onBoard.char = placed.char

\* The "EXISTING TILE" comparison: the two tiles show the same letter
SameLetter(onBoard, placed) == toUpperCase(onBoard.char) = toUpperCase(placed.char)

ScoreStart(currentRack) ==
    [rackAvailable |-> currentRack, mainWordScore |-> 0, mainWordMultiplier |-> 1,
     tilesUsedFromRack |-> 0, totalScore |-> 0, allWordsValid |-> TRUE,
     invalidWordError |-> Null, touchesExisting |-> FALSE, touchesCenter |-> FALSE,
     ret |-> Null]

\* "Check Rack": pay for the tile with the letter itself, else with a '?'
PayFromRack(rackAvailable, tileInternalChar) ==
    LET rackIndex  == IndexOf(rackAvailable, tileInternalChar)
        jokerIndex == IndexOf(rackAvailable, "?")
    IN IF rackIndex # 0
       THEN [ok |-> TRUE, joker |-> FALSE, rack |-> RemoveAt(rackAvailable, rackIndex)]
       ELSE IF jokerIndex # 0
       THEN [ok |-> TRUE, joker |-> TRUE, rack |-> RemoveAt(rackAvailable, jokerIndex)]
       ELSE [ok |-> FALSE, joker |-> FALSE, rack |-> rackAvailable]

\* One iteration of the loop over tiles (the i-th tile, i counted from 1)
ScoreTile(trie, bd, tiles, newTilesMap, startRow, startCol, direction, i, st) ==
    LET dr == Dr(direction)
        dc == Dc(direction)
        r == startRow + (i - 1) * dr
        c == startCol + (i - 1) * dc
        tile == tiles[i]
        tileInternalChar == toUpperCase(tile.char)
        center == st.touchesCenter \/ (r = CENTER /\ c = CENTER)
    IN
    IF r >= BOARD_SIZE \/ c >= BOARD_SIZE
    THEN [st EXCEPT !.ret = Reject(ErrOutOfBounds)]
    ELSE IF r < 0 \/ c < 0
    THEN \* board[r] or board[r][c] is undefined: reading it throws a TypeError
         [st EXCEPT !.ret = Thrown]
    ELSE
    LET cell == bd[r][c] IN
    IF cell.tile # Null
    THEN \* existing tile
         IF ~SameLetter(cell.tile, tile)
         THEN [st EXCEPT !.ret = Reject(ErrCellConflict(r, c, cell.tile.displayChar,
                                                        tile.displayChar))]
         ELSE [st EXCEPT !.mainWordScore = @ + cell.tile.value,
                         !.touchesExisting = TRUE,
                         !.touchesCenter = center]
    ELSE \* new tile
    LET touches == st.touchesExisting
                   \/ HasTile(bd, r - 1, c) \/ HasTile(bd, r + 1, c)
                   \/ HasTile(bd, r, c - 1) \/ HasTile(bd, r, c + 1)
        paid == PayFromRack(st.rackAvailable, tileInternalChar)
    IN
    IF ~paid.ok
    THEN [st EXCEPT !.ret = IF tile.isBlank
                            THEN Reject(ErrMissingBlank(tile.displayChar))
                            ELSE Reject(ErrMissingRackLetter(tile.displayChar))]
    ELSE
    LET letterVal == tile.value * getMultiplierVal(cell.multiplier, FALSE)
        wordMult  == getMultiplierVal(cell.multiplier, TRUE)
        crossDr   == IF direction = "H" THEN 1 ELSE 0
        crossDc   == IF direction = "H" THEN 0 ELSE 1
        hasPrev   == HasTile(bd, r - crossDr, c - crossDc)
        hasNext   == HasTile(bd, r + crossDr, c + crossDc)
        crossWordStr == getFullWordString(bd, newTilesMap, r, c, crossDr, crossDc)
        crossOk   == validateWord(trie, crossWordStr)
        crossWordScore == letterVal
                          + RunValue(bd, r - crossDr, c - crossDc, -crossDr, -crossDc)
                          + RunValue(bd, r + crossDr, c + crossDc, crossDr, crossDc)
        base == [st EXCEPT !.rackAvailable = paid.rack,
                           !.tilesUsedFromRack = @ + 1,
                           !.mainWordScore = @ + letterVal,
                           !.mainWordMultiplier = @ * wordMult,
                           !.touchesExisting = touches,
                           !.touchesCenter = center]
    IN
    IF hasPrev \/ hasNext
    THEN [base EXCEPT !.allWordsValid = @ /\ crossOk,
                      !.invalidWordError = IF crossOk THEN @
                                           ELSE ErrInvalidWord(crossWordStr),
                      !.totalScore = @ + crossWordScore * wordMult]
    ELSE base

RECURSIVE ScoreLoop(_, _, _, _, _, _, _, _, _)
ScoreLoop(trie, bd, tiles, newTilesMap, startRow, startCol, direction, i, st) ==
    IF i > Len(tiles) \/ st.ret # Null THEN st
    ELSE ScoreLoop(trie, bd, tiles, newTilesMap, startRow, startCol, direction, i + 1,
                   ScoreTile(trie, bd, tiles, newTilesMap, startRow, startCol,
                             direction, i, st))

\* Variant of ScoreFinish that grants the bonus to a candidate of 7 tiles
ScoreFinish_BonusByLength(bd, tiles, st) ==
    IF isBoardEmpty(bd) /\ ~st.touchesCenter THEN Reject(ErrMissingCenter)
    ELSE IF isBoardEmpty(bd) /\ Len(tiles) < 2 THEN Reject(ErrTooShortFirstMove)
    ELSE IF ~isBoardEmpty(bd) /\ ~st.touchesExisting THEN Reject(ErrNotConnected)
    ELSE IF ~st.allWordsValid THEN Reject(st.invalidWordError)
    ELSE Accept(st.totalScore + st.mainWordScore * st.mainWordMultiplier
                + (IF Len(tiles) = BINGO_TILES THEN BINGO_BONUS ELSE 0))

\* Variant of ScoreFinish without the centre rule of the first move
ScoreFinish_NoCenterRule(bd, tiles, st) ==
    IF isBoardEmpty(bd) /\ Len(tiles) < 2 THEN Reject(ErrTooShortFirstMove)
    ELSE IF ~isBoardEmpty(bd) /\ ~st.touchesExisting THEN Reject(ErrNotConnected)
    ELSE IF ~st.allWordsValid THEN Reject(st.invalidWordError)
    ELSE Accept(st.totalScore + st.mainWordScore * st.mainWordMultiplier
                + (IF st.tilesUsedFromRack = BINGO_TILES THEN BINGO_BONUS ELSE 0))

\* Variant of ScoreFinish that tests the length of the first move before its centre
ScoreFinish_LengthFirst(bd, tiles, st) ==
    IF isBoardEmpty(bd) /\ Len(tiles) < 2 THEN Reject(ErrTooShortFirstMove)
    ELSE IF isBoardEmpty(bd) /\ ~st.touchesCenter THEN Reject(ErrMissingCenter)
    ELSE IF ~isBoardEmpty(bd) /\ ~st.touchesExisting THEN Reject(ErrNotConnected)
    ELSE IF ~st.allWordsValid THEN Reject(st.invalidWordError)
    ELSE Accept(st.totalScore + st.mainWordScore * st.mainWordMultiplier
                + (IF st.tilesUsedFromRack = BINGO_TILES THEN BINGO_BONUS ELSE 0))

\* Variant of ScoreFinish without the connection rule
ScoreFinish_NoConnectRule(bd, tiles, st) ==
    IF isBoardEmpty(bd) /\ ~st.touchesCenter THEN Reject(ErrMissingCenter)
    ELSE IF isBoardEmpty(bd) /\ Len(tiles) < 2 THEN Reject(ErrTooShortFirstMove)
    ELSE IF ~st.allWordsValid THEN Reject(st.invalidWordError)
    ELSE Accept(st.totalScore + st.mainWordScore * st.mainWordMultiplier
                + (IF st.tilesUsedFromRack = BINGO_TILES THEN BINGO_BONUS ELSE 0))

\* "RULES VALIDATION" and the final score, after the loop over the tiles
ScoreFinish(bd, tiles, st) ==
    IF isBoardEmpty(bd) /\ ~st.touchesCenter THEN Reject(ErrMissingCenter)
    ELSE IF isBoardEmpty(bd) /\ Len(tiles) < 2 THEN Reject(ErrTooShortFirstMove)
    ELSE IF ~isBoardEmpty(bd) /\ ~st.touchesExisting THEN Reject(ErrNotConnected)
    ELSE IF ~st.allWordsValid THEN Reject(st.invalidWordError)
    ELSE Accept(st.totalScore + st.mainWordScore * st.mainWordMultiplier
                + (IF st.tilesUsedFromRack = BINGO_TILES THEN BINGO_BONUS ELSE 0))

\* The result of an early return inside the loop, else of the rules validation
ScoreReturn(bd, tiles, st) == IF st.ret # Null THEN st.ret ELSE ScoreFinish(bd, tiles, st)

\* calculateMoveScore(board, tiles, currentRack, startRow, startCol, direction),
\* reading the module-level trieInstance through validateWord
calculateMoveScore(trie, bd, tiles, currentRack, startRow, startCol, direction) ==
    LET dr == Dr(direction)
        dc == Dc(direction)
        newTilesMap == NewTilesMap(tiles, startRow, startCol, dr, dc)
        mainWordStr == getFullWordString(bd, newTilesMap, startRow, startCol, dr, dc)
        mainOk == Len(mainWordStr) <= 1 \/ validateWord(trie, mainWordStr)
        st0 == [ScoreStart(currentRack) EXCEPT
                   !.allWordsValid = mainOk,
                   !.invalidWordError = IF mainOk THEN Null
                                        ELSE ErrInvalidWord(mainWordStr)]
        st == ScoreLoop(trie, bd, tiles, newTilesMap, startRow, startCol, direction,
                        1, st0)
    IN ScoreReturn(bd, tiles, st)

\* ------------------------------------------------------------------------
\* Best-move finder
\* ------------------------------------------------------------------------
INTERNAL_TO_TRIE(ch) ==
    IF ch = "C~" THEN "1" ELSE IF ch = "L/" THEN "2"
    ELSE IF ch = "Y'" THEN "3" ELSE IF ch = "U^" THEN "Q" ELSE ""

TRIE_TO_INTERNAL(ch) ==
    IF ch = "1" THEN "C~" ELSE IF ch = "2" THEN "L/"
    ELSE IF ch = "3" THEN "Y'" ELSE IF ch = "Q" THEN "U^" ELSE ""

TRIE_ALPHABET == <<"A","B","C","D","E","F","G","H","I","J","K","L","M","N","O","P",
                   "Q","R","S","T","U","V","W","X","Y","Z","1","2","3">>

getTrieChar(internalChar) ==
    LET upper == toUpperCase(internalChar)
    IN IF INTERNAL_TO_TRIE(upper) # "" THEN INTERNAL_TO_TRIE(upper) ELSE upper

getInternalChar(trieChar, isBlank) ==
    LET base == IF TRIE_TO_INTERNAL(trieChar) # "" THEN TRIE_TO_INTERNAL(trieChar)
                ELSE trieChar
    IN IF isBlank THEN toLowerCase(base) ELSE base

RECURSIVE Flatten(_)
Flatten(ss) == IF ss = <<>> THEN <<>> ELSE Head(ss) \o Flatten(Tail(ss))

\* The cells of the board in row-major order (the nested loops over r and c)
AllCells ==
    [k \in 1..(BOARD_SIZE * BOARD_SIZE) |->
        [row |-> (k - 1) \div BOARD_SIZE, col |-> (k - 1) % BOARD_SIZE]]

\* findAnchors: the anchors in row-major order
findAnchors(bd, boardEmpty) ==
    IF boardEmpty THEN <<[row |-> CENTER, col |-> CENTER]>>
    ELSE SelectSeq(AllCells, LAMBDA a :
            /\ bd[a.row][a.col].tile = Null
            /\ \/ HasTile(bd, a.row - 1, a.col) \/ HasTile(bd, a.row + 1, a.col)
               \/ HasTile(bd, a.row, a.col - 1) \/ HasTile(bd, a.row, a.col + 1))

\* First row of the vertical run of tiles ending just above / below (r,c)
RECURSIVE RunEnd(_, _, _, _)
RunEnd(bd, r, c, step) ==
    IF HasTile(bd, r + step, c) THEN RunEnd(bd, r + step, c, step) ELSE r

\* computeCrossChecks: per cell null (no constraint) or the set of allowed
\* trie characters
computeCrossChecks(bd, trie) ==
    [r \in Idx |-> [c \in Idx |->
        IF bd[r][c].tile # Null THEN [constrained |-> FALSE, allowed |-> {}]
        ELSE LET up   == RunEnd(bd, r, c, -1)
                 down == RunEnd(bd, r, c, 1)
                 prefix == [k \in 1..(r - up) |-> getTrieChar(bd[up + k - 1][c].tile.char)]
                 suffix == [k \in 1..(down - r) |-> getTrieChar(bd[r + k][c].tile.char)]
             IN IF up = r /\ down = r THEN [constrained |-> FALSE, allowed |-> {}]
                ELSE [constrained |-> TRUE,
                      allowed |-> {ch \in Range(TRIE_ALPHABET) :
                                      lookup(trie, prefix \o <<ch>> \o suffix)}]]]

\* addMove: the candidate for the word ending just before endColParam
addMove(bd, rowParam, endColParam, wordStrInternal, direction) ==
    LET len == Len(wordStrInternal)
        startColIndex == endColParam - len
        tiles == [i \in 1..len |->
                    LET cell == bd[rowParam][startColIndex + i - 1]
                    IN IF cell.tile # Null THEN cell.tile
                       ELSE createTile(wordStrInternal[i])]
        newTilesCount ==
            Cardinality({i \in 1..len : bd[rowParam][startColIndex + i - 1].tile = Null})
    IN IF newTilesCount = 0 THEN <<>>
       ELSE <<[word |-> wordStrInternal, tiles |-> tiles,
               row |-> IF direction = "H" THEN rowParam ELSE startColIndex,
               col |-> IF direction = "H" THEN startColIndex ELSE rowParam,
               direction |-> direction]>>

RECURSIVE extendRight(_, _, _, _, _, _, _, _, _)
extendRight(trie, bd, row, col, partialWordInternal, node, rk, crossChecks, direction) ==
    IF col >= BOARD_SIZE
    THEN IF NodeFinal(trie, node)
         THEN addMove(bd, row, col, partialWordInternal, direction) ELSE <<>>
    ELSE IF bd[row][col].tile # Null
    THEN LET existingInternal == bd[row][col].tile.char
             childNode == FindChild(trie, node, getTrieChar(existingInternal))
         IN IF childNode # NoNode
            THEN extendRight(trie, bd, row, col + 1,
                             Append(partialWordInternal, existingInternal),
                             childNode, rk, crossChecks, direction)
            ELSE <<>>
    ELSE
    LET here == IF NodeFinal(trie, node)
                THEN addMove(bd, row, col, partialWordInternal, direction) ELSE <<>>
        letters == ChildLetters(trie, node)
        check == crossChecks[row][col]
    IN here \o Flatten([i \in 1..Len(letters) |->
            LET trieLetter == letters[i]
                child == Append(node, trieLetter)
                rackIdx == IndexOf(rk, trieLetter)
                blankIdx == IndexOf(rk, "?")
            IN IF check.constrained /\ trieLetter \notin check.allowed THEN <<>>
               ELSE IF rackIdx # 0
               THEN extendRight(trie, bd, row, col + 1,
                                Append(partialWordInternal, getInternalChar(trieLetter, FALSE)),
                                child, RemoveAt(rk, rackIdx), crossChecks, direction)
               ELSE IF blankIdx # 0
               THEN extendRight(trie, bd, row, col + 1,
                                Append(partialWordInternal, getInternalChar(trieLetter, TRUE)),
                                child, RemoveAt(rk, blankIdx), crossChecks, direction)
               ELSE <<>>])

RECURSIVE leftPart(_, _, _, _, _, _, _, _, _, _)
leftPart(trie, bd, row, anchorCol, partialWordInternal, node, limit, rk, crossChecks, direction) ==
    LET letters == ChildLetters(trie, node)
    IN extendRight(trie, bd, row, anchorCol, partialWordInternal, node, rk, crossChecks,
                   direction)
       \o (IF limit > 0
           THEN Flatten([i \in 1..Len(letters) |->
                  LET trieLetter == letters[i]
                      child == Append(node, trieLetter)
                      rackIdx == IndexOf(rk, trieLetter)
                      blankIdx == IndexOf(rk, "?")
                  IN IF rackIdx # 0
                     THEN leftPart(trie, bd, row, anchorCol,
                                   Append(partialWordInternal,
                                          getInternalChar(trieLetter, FALSE)),
                                   child, limit - 1, RemoveAt(rk, rackIdx), crossChecks,
                                   direction)
                     ELSE IF blankIdx # 0
                     THEN leftPart(trie, bd, row, anchorCol,
                                   Append(partialWordInternal,
                                          getInternalChar(trieLetter, TRUE)),
                                   child, limit - 1, RemoveAt(rk, blankIdx), crossChecks,
                                   direction)
                     ELSE <<>>])
           ELSE <<>>)

\* Existing-prefix case: the start column of the word fragment ending at c-1
RECURSIVE PrefixStart(_, _, _)
PrefixStart(bd, r, start) ==
    IF start > 0 /\ bd[r][start - 1].tile # Null THEN PrefixStart(bd, r, start - 1)
    ELSE start

\* Walk the trie along the tiles of columns k..c-1; NoNode when the walk fails
RECURSIVE PrefixNode(_, _, _, _, _, _)
PrefixNode(trie, bd, r, k, c, currNode) ==
    IF k >= c THEN currNode
    ELSE LET nextNode == FindChild(trie, currNode, getTrieChar(bd[r][k].tile.char))
         IN IF nextNode = NoNode THEN NoNode
            ELSE PrefixNode(trie, bd, r, k + 1, c, nextNode)

\* Empty-space case: consecutive empty non-anchor cells to the left of c
RECURSIVE LimitLeft(_, _, _, _)
LimitLeft(bd, anchors, r, k) ==
    IF k >= 0 /\ bd[r][k].tile = Null
       /\ ~(\E i \in 1..Len(anchors) : anchors[i].row = r /\ anchors[i].col = k)
    THEN 1 + LimitLeft(bd, anchors, r, k - 1)
    ELSE 0

\* The moves generated from one anchor
AnchorMoves(trie, currentBoard, anchors, crossChecks, trieRack, direction, anchor) ==
    LET r == anchor.row
        c == anchor.col
    IN IF c > 0 /\ currentBoard[r][c - 1].tile # Null
       THEN LET start == PrefixStart(currentBoard, r, c - 1)
                prefixInternal == [k \in 1..(c - start) |->
                                      currentBoard[r][start + k - 1].tile.char]
                currNode == PrefixNode(trie, currentBoard, r, start, c, getRoot(trie))
            IN IF currNode # NoNode
               THEN extendRight(trie, currentBoard, r, c, prefixInternal, currNode,
                                trieRack, crossChecks, direction)
               ELSE <<>>
       ELSE leftPart(trie, currentBoard, r, c, <<>>, getRoot(trie),
                     LimitLeft(currentBoard, anchors, r, c - 1),
                     trieRack, crossChecks, direction)

\* findMovesInDirection: rows in order, the anchors of a row in order
findMovesInDirection(trie, currentBoard, boardEmpty, trieRack, direction) ==
    LET crossChecks == computeCrossChecks(currentBoard, trie)
        anchors == findAnchors(currentBoard, boardEmpty)
    IN Flatten([i \in 1..Len(anchors) |->
                  AnchorMoves(trie, currentBoard, anchors, crossChecks, trieRack,
                              direction, anchors[i])])

\* The transposed view built for the vertical pass
Transpose(bd) ==
    [c \in Idx |-> [r \in Idx |-> [bd[r][c] EXCEPT !.row = c, !.col = r]]]

\* The candidate with the validator's verdict on it
ScoredMove(m, res) ==
    [word |-> m.word, tiles |-> m.tiles, row |-> m.row, col |-> m.col,
     direction |-> m.direction,
     score |-> IF res.isValid THEN res.score ELSE -1,
     isValid |-> res.isValid, error |-> res.error]

\* Variant of ScoreMoves that keeps the candidates the validator rejects
ScoreMoves_Unfiltered(trie, bd, rk, moves) ==
    [i \in 1..Len(moves) |->
        ScoredMove(moves[i],
                   calculateMoveScore(trie, bd, moves[i].tiles, rk, moves[i].row,
                                      moves[i].col, moves[i].direction))]

\* Every candidate is scored by calculateMoveScore on the original board; the
\* invalid and the non-positive ones are dropped
ScoreMoves(trie, bd, rk, moves) ==
    LET scored == [i \in 1..Len(moves) |->
                     ScoredMove(moves[i],
                                calculateMoveScore(trie, bd, moves[i].tiles, rk, moves[i].row,
                                                   moves[i].col, moves[i].direction))]
    IN SelectSeq(scored, LAMBDA m : m.isValid /\ m.score > 0)

MoveKey(m) == <<m.word, m.row, m.col, m.direction>>

\* uniqueMoves: a Map keeps the position of a key's first insertion; a later
\* move with the same key replaces the value only when it scores higher
RECURSIVE Deduplicate(_, _)
Deduplicate(scoredMoves, unique) ==
    IF scoredMoves = <<>> THEN unique
    ELSE LET m == Head(scoredMoves)
             at == {i \in 1..Len(unique) : MoveKey(unique[i]) = MoveKey(m)}
         IN IF at = {} THEN Deduplicate(Tail(scoredMoves), Append(unique, m))
            ELSE LET i == CHOOSE j \in at : TRUE
                 IN Deduplicate(Tail(scoredMoves),
                                IF m.score > unique[i].score
                                THEN [unique EXCEPT ![i] = m] ELSE unique)

\* Array.prototype.sort((a, b) => b.score - a.score): stable, descending
RECURSIVE InsertByScore(_, _)
InsertByScore(sorted, m) ==
    IF sorted = <<>> THEN <<m>>
    ELSE IF Head(sorted).score >= m.score
         THEN <<Head(sorted)>> \o InsertByScore(Tail(sorted), m)
    ELSE <<m>> \o sorted

\* Variant of SortByScore that leaves the moves in the order found
SortByScore_Unsorted(ms) == ms

RECURSIVE SortByScore(_)
SortByScore(ms) ==
    IF ms = <<>> THEN <<>>
    ELSE InsertByScore(SortByScore(SubSeq(ms, 1, Len(ms) - 1)), ms[Len(ms)])

\* slice(0, n)
Slice(ms, n) == SubSeq(ms, 1, IF n < Len(ms) THEN n ELSE Len(ms))

EffectiveLimit(limit) == IF limit = 0 THEN SAFE_LIMIT ELSE limit

\* The candidates generated by both passes, before scoring
GenerateMoves(trie, bd, rk) ==
    LET isEmpty == isBoardEmpty(bd)
        trieRack == [i \in 1..Len(rk) |-> IF rk[i] = "?" THEN "?" ELSE getTrieChar(rk[i])]
    IN findMovesInDirection(trie, bd, isEmpty, trieRack, "H")
       \o findMovesInDirection(trie, Transpose(bd), isEmpty, trieRack, "V")

\* findBestMoves(board, rack, limit), reading the module-level trieInstance
findBestMoves(trie, bd, rk, limit) ==
    IF trie = Null THEN <<>>
    ELSE Slice(SortByScore(Deduplicate(ScoreMoves(trie, bd, rk,
                                                  GenerateMoves(trie, bd, rk)), <<>>)),
               EffectiveLimit(limit))

\* ------------------------------------------------------------------------
\* Inputs of the model: dictionary payload, boards, racks, candidates
\* ------------------------------------------------------------------------
\* The words of the loaded payload, in trie characters ("3" is the NY tile)
DISC_WORDS ==
    {<<"C","A">>, <<"A","S">>, <<"C","A","S">>, <<"C","A","S","A">>,
     <<"S","A","C">>, <<"A","3">>}

DISC == FrozenTrie(DISC_WORDS)

Tiles(chars) == [i \in 1..Len(chars) |-> createTile(chars[i])]

\* The board after a round's master move (finalizeRound, "Generate New Board"):
\* the move's tiles go to the cells that are inside the board and still empty
PlaceTiles(bd, tiles, row, col, direction) ==
    [r \in Idx |-> [c \in Idx |->
        LET i == IF direction = "H" THEN c - col + 1 ELSE r - row + 1
            onLine == IF direction = "H" THEN r = row ELSE c = col
        IN IF onLine /\ i \in 1..Len(tiles) /\ bd[r][c].tile = Null
           THEN [bd[r][c] EXCEPT !.tile = tiles[i]]
           ELSE bd[r][c]]]

\* Boards of games in progress, each built from the previous one by a play
\* (the A of Board1 is a blank; Board3 reaches the right edge of the board)
Board0 == createInitialBoard
Board1 == PlaceTiles(Board0, Tiles(<<"C","a","S">>), 7, 6, "H")
Board2 == PlaceTiles(Board1, Tiles(<<"S","A","C">>), 7, 8, "V")
Board2a == PlaceTiles(Board2, Tiles(<<"C","A","S","A">>), 9, 8, "H")
Board2b == PlaceTiles(Board2a, Tiles(<<"C","A","S">>), 8, 11, "V")
Board2c == PlaceTiles(Board2b, Tiles(<<"S","A","C">>), 10, 11, "H")
Board2d == PlaceTiles(Board2c, Tiles(<<"C","A","S">>), 10, 13, "V")
Board3 == PlaceTiles(Board2d, Tiles(<<"A","S">>), 11, 13, "H")

Boards == {Board0, Board1, Board2, Board3}

Racks == {<<"C","A","S","A">>, <<"A","S","?">>, <<"Y'","A","?">>}

Directions == {"H", "V"}

\* Start cells of the candidates handed to the validator
StartCells ==
    {<<7,7>>, <<7,6>>, <<6,7>>, <<7,5>>, <<5,7>>, <<8,6>>, <<8,7>>, <<6,8>>,
     <<7,8>>, <<7,9>>, <<8,8>>, <<0,0>>, <<-1,7>>, <<7,-1>>, <<7,14>>, <<14,7>>,
     <<7,15>>, <<15,7>>, <<7,13>>}

\* Internal characters of the candidates' tiles (lower case: a blank)
TileChars == {"A", "C", "S", "a", "Y'"}

TileLists == UNION {[1..n -> {createTile(ch) : ch \in TileChars}] : n \in 0..MaxTiles}

\* ------------------------------------------------------------------------
\* State
\* ------------------------------------------------------------------------
VARIABLES
    trieInstance,   \* the dictionary singleton: a FrozenTrie or Null
    board,          \* the host's current board, input of every call: the tile
                    \* of every occupied cell (the multipliers are the fixed
                    \* layout of createInitialBoard)
    currentRack,    \* the host's current rack, input of every call
    pc,             \* "ready", "scored" (calculateMoveScore returned),
                    \* "found" (findBestMoves returned)
    call,           \* the arguments of the last call
    scoreResult,    \* what the last calculateMoveScore call returned
    bestMoves,      \* what the last findBestMoves call returned
    currentDictionaryName,  \* module-level name of the active dictionary
    currentDictionaryData,  \* module-level payload of the active dictionary, or Null
    loads,          \* the loadDictionary calls suspended at an await
    lastLoad,       \* history: the last loadDictionary call that ran to its end:
                    \* the name asked for, the data received, whether it threw
                    \* (Null before it; Off where no history is kept)
    firstCall,      \* history: the first calculateMoveScore call, the dictionary
                    \* it read, its result, and whether the call was made again
                    \* (Null before it; Off where no history is kept)
    inputWord,      \* the text typed by the player
    parsedTiles,    \* what parseInputWord returned for it
    gameBoard,      \* the stored board of the game (games/<id>/board), a
                    \* BoardCell[][] with its multipliers (Off where the stored
                    \* game is not followed)
    rankDirectory,  \* a RankDirectory: its data bits, directory bits and sizes
    selectCall,     \* a RankDirectory.select call: its arguments, the variables
                    \* of its loop and whether it returned
    db,             \* the database under games/<gameId>: currentRound, board,
                    \* currentRack, rounds and participants
    tasks,          \* the service calls suspended at an await, each with the
                    \* snapshot it read
    now,            \* Date.now()
    history         \* history of the game: the last move each player sent for
                    \* each round, and the game as finalizeRound found it

dictVars == <<currentDictionaryName, currentDictionaryData, loads, lastLoad>>

inputVars == <<inputWord, parsedTiles>>

selectVars == <<rankDirectory, selectCall>>

gameVars == <<db, tasks, now, history>>

vars == <<trieInstance, board, currentRack, pc, call, scoreResult, bestMoves, dictVars, firstCall, inputVars, gameBoard, selectVars, gameVars>>

\* The occupied cells of a BoardCell[][] and back
TilesOf(bd) ==
    [p \in {q \in Idx \X Idx : bd[q[1]][q[2]].tile # Null} |-> bd[p[1]][p[2]].tile]

Cells(tilesOnBoard) ==
    [r \in Idx |-> [c \in Idx |->
        IF <<r, c>> \in DOMAIN tilesOnBoard
        THEN [createInitialBoard[r][c] EXCEPT !.tile = tilesOnBoard[<<r, c>>]]
        ELSE createInitialBoard[r][c]]]

NoCall == [tiles |-> <<>>, row |-> 0, col |-> 0, direction |-> "H", limit |-> -1]

Off == [off |-> TRUE]

\* No RankDirectory and no stored game are followed
NoSelect == rankDirectory = Off /\ selectCall = Off

NoGame == db = Off /\ tasks = Off /\ now = 0 /\ history = Off

\* A payload as served for a dictionary name: the words its trie encodes and
\* its version
Payload(words, version) == [trie |-> words, version |-> version]

\* The DISC dictionary loaded, no load in progress, nothing typed
DiscLoaded ==
    /\ currentDictionaryName = "DISC"
    /\ currentDictionaryData = Payload(DISC_WORDS, "1")
    /\ loads = {}
    /\ lastLoad = Null
    /\ firstCall = Off
    /\ inputWord = <<>>
    /\ parsedTiles = <<>>
    /\ gameBoard = Off
    /\ NoSelect
    /\ NoGame

Init ==
    /\ trieInstance = DISC
    /\ DiscLoaded
    /\ board \in {TilesOf(bd) : bd \in Boards}
    /\ currentRack \in Racks
    /\ pc = "ready"
    /\ call = NoCall
    /\ scoreResult = Null
    /\ bestMoves = <<>>

\* Variant of CallCalculateMoveScore whose validator takes the dictionary for
\* unloaded while a load is in progress
CallCalculateMoveScore_OpenWhileLoading(tiles, row, col, direction) ==
    /\ pc \in {"ready", "found"}
    /\ pc' = "scored"
    /\ call' = [call EXCEPT !.tiles = tiles, !.row = row, !.col = col,
                            !.direction = direction]
    /\ scoreResult' = calculateMoveScore(IF loads # {} THEN Null ELSE trieInstance,
                                         Cells(board), tiles, currentRack, row, col, direction)
    /\ firstCall' = IF firstCall = Null
                    THEN [call |-> call', trie |-> trieInstance, result |-> scoreResult',
                          again |-> FALSE]
                    ELSE IF firstCall # Off /\ firstCall.call = call'
                    THEN [firstCall EXCEPT !.again = TRUE]
                    ELSE firstCall
    /\ UNCHANGED <<trieInstance, board, currentRack, bestMoves, dictVars, inputVars, gameBoard, selectVars, gameVars>>

\* The host validates one candidate against the current board and rack
CallCalculateMoveScore(tiles, row, col, direction) ==
    /\ pc \in {"ready", "found"}
    /\ pc' = "scored"
    /\ call' = [call EXCEPT !.tiles = tiles, !.row = row, !.col = col,
                            !.direction = direction]
    /\ scoreResult' = calculateMoveScore(trieInstance, Cells(board), tiles, currentRack,
                                         row, col, direction)
    /\ firstCall' = IF firstCall = Null
                    THEN [call |-> call', trie |-> trieInstance, result |-> scoreResult',
                          again |-> FALSE]
                    ELSE IF firstCall # Off /\ firstCall.call = call'
                    THEN [firstCall EXCEPT !.again = TRUE]
                    ELSE firstCall
    /\ UNCHANGED <<trieInstance, board, currentRack, bestMoves, dictVars, inputVars, gameBoard, selectVars, gameVars>>

\* The host asks for the best moves on the current board and rack
CallFindBestMoves(limit) ==
    /\ pc = "ready"
    /\ pc' = "found"
    /\ call' = [NoCall EXCEPT !.limit = limit]
    /\ bestMoves' = findBestMoves(trieInstance, Cells(board), currentRack, limit)
    /\ UNCHANGED <<trieInstance, board, currentRack, scoreResult, dictVars, firstCall, inputVars, gameBoard, selectVars, gameVars>>

\* The host discards the last results
Return ==
    /\ pc # "ready"
    /\ pc' = "ready"
    /\ call' = NoCall
    /\ scoreResult' = Null
    /\ bestMoves' = <<>>
    /\ UNCHANGED <<trieInstance, board, currentRack, dictVars, firstCall, inputVars, gameBoard, selectVars, gameVars>>

\* Validator calls on the candidates of TileLists x StartCells x Directions
Next ==
    \/ \E tiles \in TileLists, cell \in StartCells, direction \in Directions :
          CallCalculateMoveScore(tiles, cell[1], cell[2], direction)
    \/ Return

Spec == Init /\ [][Next]_vars

\* Searches with every limit of 0..MaxLimit and, after an uncapped search, the
\* independent validation of the candidates against the same board and rack
NextFinder ==
    \/ \E limit \in 0..MaxLimit : CallFindBestMoves(limit)
    \/ /\ pc = "found"
       /\ call.limit = 0
       /\ \E tiles \in TileLists, cell \in StartCells, direction \in Directions :
             CallCalculateMoveScore(tiles, cell[1], cell[2], direction)
    \/ Return

SpecFinder == Init /\ [][NextFinder]_vars

\* ------------------------------------------------------------------------
\* Properties of findBestMoves
\* ------------------------------------------------------------------------
\* C1: with a dictionary loaded, every move returned by findBestMoves is
\* accepted (isValid, score > 0) by calculateMoveScore called independently on
\* the same board and rack with the move's tiles, row, col and direction, and
\* the score reported on the move is the validator's score.
C1_ReturnedMovesAccepted ==
    (pc = "found" /\ trieInstance # Null) =>
        \A i \in 1..Len(bestMoves) :
            LET m == bestMoves[i]
                res == calculateMoveScore(trieInstance, Cells(board), m.tiles, currentRack,
                                          m.row, m.col, m.direction)
            IN /\ ~res.thrown
               /\ res.isValid
               /\ res.score > 0
               /\ m.score = res.score

\* A search on a board with tiles that returned several moves
C1_Witness ==
    /\ pc = "found"
    /\ trieInstance # Null
    /\ DOMAIN board # {}
    /\ Len(bestMoves) >= 2

\* ------------------------------------------------------------------------
\* Reference notions on the candidate of the last calculateMoveScore call
\* ------------------------------------------------------------------------
CallPositions == 1..Len(call.tiles)

\* The cell covered by the i-th tile of the candidate
CallCell(i) ==
    <<call.row + (i - 1) * Dr(call.direction), call.col + (i - 1) * Dc(call.direction)>>

CallInBoard == \A i \in CallPositions : InBoard(CallCell(i)[1], CallCell(i)[2])

CoversCenter == \E i \in CallPositions : CallCell(i) = <<CENTER, CENTER>>

\* The positions of the candidate that put a new tile on an empty cell
NewPositions ==
    {i \in CallPositions :
        InBoard(CallCell(i)[1], CallCell(i)[2]) /\ CallCell(i) \notin DOMAIN board}

\* The positions that lie on an occupied cell
OldPositions == {i \in CallPositions : CallCell(i) \in DOMAIN board}

Letter(tile) == toUpperCase(tile.char)

\* The positions on an occupied cell whose tile shows another letter
Conflicts == {i \in OldPositions : Letter(board[CallCell(i)]) # Letter(call.tiles[i])}

Neighbours(p) ==
    {<<p[1] - 1, p[2]>>, <<p[1] + 1, p[2]>>, <<p[1], p[2] - 1>>, <<p[1], p[2] + 1>>}

\* Some new tile is orthogonally adjacent to a tile already on the board
NewTileAdjacent == \E i \in NewPositions : Neighbours(CallCell(i)) \cap DOMAIN board # {}

Count(seq, x) == Cardinality({i \in DOMAIN seq : seq[i] = x})

RECURSIVE Sum(_, _)
Sum(f, S) == IF S = {} THEN 0
             ELSE LET x == CHOOSE y \in S : TRUE IN f[x] + Sum(f, S \ {x})

\* The tiles at positions P can be paid from the rack: the letters the rack
\* lacks are no more than its wildcards
Payable(P) ==
    LET letters == {Letter(call.tiles[i]) : i \in P}
        lack == [l \in letters |->
                    LET need == Cardinality({i \in P : Letter(call.tiles[i]) = l})
                        have == Count(currentRack, l)
                    IN IF need > have THEN need - have ELSE 0]
    IN Sum(lack, letters) <= Count(currentRack, "?")

\* The tiles at positions P are rack tiles: each lettered tile is a rack
\* letter of its own, each blank tile a wildcard of the rack
FromRack(P) ==
    /\ \A i \in P :
          call.tiles[i].isBlank \/
          Cardinality({k \in P : ~call.tiles[k].isBlank /\ Letter(call.tiles[k]) = Letter(call.tiles[i])})
             <= Count(currentRack, Letter(call.tiles[i]))
    /\ Cardinality({i \in P : call.tiles[i].isBlank}) <= Count(currentRack, "?")

\* The internal characters of the word a play forms along an axis, from the
\* first cell of the word: the board's tile where there is one, else the new tile
RECURSIVE PlayChars(_, _, _, _)
PlayChars(r, c, dr, dc) ==
    IF <<r, c>> \in DOMAIN board
    THEN <<board[<<r, c>>].char>> \o PlayChars(r + dr, c + dc, dr, dc)
    ELSE IF \E i \in NewPositions : CallCell(i) = <<r, c>>
    THEN LET i == CHOOSE k \in NewPositions : CallCell(k) = <<r, c>>
         IN <<call.tiles[i].char>> \o PlayChars(r + dr, c + dc, dr, dc)
    ELSE <<>>

\* The first cell of the word through (r,c) along (dr,dc)
RECURSIVE WordStart(_, _, _, _)
WordStart(r, c, dr, dc) ==
    IF \/ <<r - dr, c - dc>> \in DOMAIN board
       \/ \E i \in NewPositions : CallCell(i) = <<r - dr, c - dc>>
    THEN WordStart(r - dr, c - dc, dr, dc)
    ELSE <<r, c>>

\* The word through (r,c) along direction d, as findBestMoves keys a move:
\* internal characters, start cell of the word, direction
WordKey(r, c, d) ==
    LET start == WordStart(r, c, Dr(d), Dc(d))
    IN <<PlayChars(start[1], start[2], Dr(d), Dc(d)), start[1], start[2], d>>

Across(d) == IF d = "H" THEN "V" ELSE "H"

ListedKeys == {MoveKey(bestMoves[i]) : i \in 1..Len(bestMoves)}

\* The play of the last call is in the list: under its own direction or, when
\* it puts down a single tile, as the word that tile forms on the other axis
PlayListed ==
    \/ WordKey(call.row, call.col, call.direction) \in ListedKeys
    \/ /\ Cardinality(NewPositions) = 1
       /\ LET p == CallCell(CHOOSE i \in NewPositions : TRUE)
          IN WordKey(p[1], p[2], Across(call.direction)) \in ListedKeys

\* C2: findBestMoves is exhaustive: after an uncapped search (limit = 0, result
\* below the ceiling) every play of one or more rack tiles (lettered tiles
\* from the rack's letters, blanks from its wildcards) that calculateMoveScore accepts with a positive score
\* on the same board and rack is in the returned list, as the full word with
\* its start cell and direction.
C2_EveryLegalPlayListed ==
    ( /\ pc = "scored"
      /\ call.limit = 0
      /\ trieInstance # Null
      /\ Len(bestMoves) < SAFE_LIMIT
      /\ scoreResult.isValid
      /\ scoreResult.score > 0
      /\ NewPositions # {}
      /\ FromRack(NewPositions) )
    => PlayListed

IsNonIncreasing(ms) == \A i \in 1..(Len(ms) - 1) : ms[i].score >= ms[i + 1].score

\* C3: for limit >= 1 the returned list has at most limit entries; for limit = 0
\* it is not cut to a caller limit (every scored candidate is listed) and has at
\* most 5000 entries; in both cases the scores are non-increasing.
C3_SortedAndCapped ==
    (pc = "found" /\ trieInstance # Null) =>
        /\ IsNonIncreasing(bestMoves)
        /\ call.limit >= 1 => Len(bestMoves) <= call.limit
        /\ call.limit = 0 =>
              /\ Len(bestMoves) <= SAFE_LIMIT
              /\ LET all == ScoreMoves(trieInstance, Cells(board), currentRack,
                                       GenerateMoves(trieInstance, Cells(board), currentRack))
                 IN Len(all) <= SAFE_LIMIT =>
                       \A i \in 1..Len(all) : MoveKey(all[i]) \in ListedKeys

\* Searches whose result is cut by the caller's limit, and an uncapped search
\* returning moves of different scores
C3_Witness ==
    /\ pc = "found"
    /\ \/ call.limit >= 1 /\ Len(bestMoves) = call.limit
       \/ /\ call.limit = 0
          /\ Len(bestMoves) > MaxLimit
          /\ bestMoves[1].score > bestMoves[Len(bestMoves)].score

\* ------------------------------------------------------------------------
\* Properties of calculateMoveScore
\* ------------------------------------------------------------------------
\* C4: on a board with no tiles, every candidate calculateMoveScore accepts
\* covers the center cell (7,7) with one of its tiles and has at least 2
\* letters, whatever the rack, the position and the direction.
C4_FirstMoveAccepted ==
    (pc = "scored" /\ DOMAIN board = {} /\ scoreResult.isValid) =>
        /\ CoversCenter
        /\ Len(call.tiles) >= 2

\* An accepted first move of two tiles that reaches the center with its second tile
C4_Witness ==
    /\ pc = "scored"
    /\ DOMAIN board = {}
    /\ scoreResult.isValid
    /\ Len(call.tiles) = 2
    /\ CallCell(2) = <<CENTER, CENTER>>

CrossPositions ==
    {i \in NewPositions :
        LET p == CallCell(i)
            d == Across(call.direction)
        IN \/ <<p[1] - Dr(d), p[2] - Dc(d)>> \in DOMAIN board
           \/ <<p[1] + Dr(d), p[2] + Dc(d)>> \in DOMAIN board}

\* The word in trie characters
TrieWord(chars) == [k \in 1..Len(chars) |-> getTrieChar(chars[k])]

\* C6: with a dictionary loaded, every candidate calculateMoveScore accepts
\* forms only words of the dictionary: the full main word along the play axis
\* when longer than 1 letter, and the perpendicular word through every new tile
\* that touches a board tile across the play axis.
C6_AcceptedWordsInDictionary ==
    (pc = "scored" /\ trieInstance # Null /\ scoreResult.isValid) =>
        /\ LET main == WordKey(call.row, call.col, call.direction)[1]
           IN Len(main) > 1 => TrieWord(main) \in DISC_WORDS
        /\ \A i \in CrossPositions :
              LET p == CallCell(i)
              IN TrieWord(WordKey(p[1], p[2], Across(call.direction))[1]) \in DISC_WORDS

\* An accepted play of two new tiles, one of them the NY tile, that forms a
\* cross word with the board
C6_Witness ==
    /\ pc = "scored"
    /\ trieInstance # Null
    /\ scoreResult.isValid
    /\ Cardinality(NewPositions) = 2
    /\ CrossPositions # {}
    /\ \E i \in NewPositions : call.tiles[i].char = "Y'"

ConflictAt(i) ==
    ErrCellConflict(CallCell(i)[1], CallCell(i)[2], board[CallCell(i)].displayChar,
                    call.tiles[i].displayChar)

\* C8 as stated: an in-bounds candidate covering an occupied cell whose tile
\* shows another letter (blank or not) is rejected with score 0 and a
\* CellConflict naming such a cell, the board's symbol and the candidate's; a
\* candidate that differs from the board in blank status only gets no CellConflict.
C8_ConflictAsStated ==
    (pc = "scored" /\ CallInBoard) =>
        /\ Conflicts # {} => \E i \in Conflicts : scoreResult = Reject(ConflictAt(i))
        /\ Conflicts = {} => (scoreResult.error = Null \/ scoreResult.error.kind # "CellConflict")

\* C8: an in-bounds candidate covering an occupied cell whose tile shows
\* another letter is rejected with score 0; the error is the CellConflict naming
\* the first such cell, the board's symbol and the candidate's when the new
\* tiles before that cell can be paid from the rack, and the rack error
\* (MissingRackLetter or MissingBlank) otherwise; a candidate that differs from
\* the board in blank status only gets no CellConflict.
C8_Conflict ==
    (pc = "scored" /\ CallInBoard) =>
        /\ Conflicts # {} =>
              LET first == CHOOSE i \in Conflicts : \A k \in Conflicts : i <= k
                  before == {k \in NewPositions : k < first}
              IN /\ scoreResult.score = 0
                 /\ ~scoreResult.isValid
                 /\ ~scoreResult.thrown
                 /\ Payable(before) => scoreResult = Reject(ConflictAt(first))
                 /\ ~Payable(before) =>
                       scoreResult.error.kind \in {"MissingRackLetter", "MissingBlank"}
        /\ Conflicts = {} => (scoreResult.error = Null \/ scoreResult.error.kind # "CellConflict")

\* A candidate whose first tile is new and paid from the rack and whose second
\* tile lies on a board tile of another letter
C8_Witness ==
    /\ pc = "scored"
    /\ CallInBoard
    /\ 1 \in NewPositions
    /\ 2 \in Conflicts
    /\ scoreResult = Reject(ConflictAt(2))

\* C9: a candidate that places no new tile (an empty tile list, or tiles that
\* all lie on occupied cells holding the same letter) is never accepted.
C9_NoNewTileNeverAccepted ==
    (pc = "scored" /\ CallInBoard /\ NewPositions = {} /\ Conflicts = {}) =>
        ~scoreResult.isValid

\* C10: a candidate with a covered cell outside the board gets the result
\* {score: 0, isValid: false, error: OutOfBounds}: no exception, no other error.
C10_OutOfBounds ==
    (pc = "scored" /\ ~CallInBoard) => scoreResult = Reject(ErrOutOfBounds)

\* ------------------------------------------------------------------------
\* Reference score of the candidate of the last calculateMoveScore call
\* ------------------------------------------------------------------------
\* Letter and word multiplier of a cell, from the coordinate tables
RefLetterMult(p) ==
    IF p = <<CENTER, CENTER>> \/ p \in TRIPLE_WORD_COORDS \/ p \in DOUBLE_WORD_COORDS THEN 1
    ELSE IF p \in TRIPLE_LETTER_COORDS THEN 3
    ELSE IF p \in DOUBLE_LETTER_COORDS THEN 2
    ELSE 1

RefWordMult(p) ==
    IF p = <<CENTER, CENTER>> THEN 2
    ELSE IF p \in TRIPLE_WORD_COORDS THEN 3
    ELSE IF p \in DOUBLE_WORD_COORDS THEN 2
    ELSE 1

RECURSIVE Product(_, _)
Product(f, S) == IF S = {} THEN 1
                 ELSE LET x == CHOOSE y \in S : TRUE IN f[x] * Product(f, S \ {x})

\* The cells of the word through (r,c) along (dr,dc), from (r,c) onwards:
\* board tiles and new tiles
RECURSIVE WordCells(_, _, _, _)
WordCells(r, c, dr, dc) ==
    IF <<r, c>> \in DOMAIN board \/ \E i \in NewPositions : CallCell(i) = <<r, c>>
    THEN {<<r, c>>} \cup WordCells(r + dr, c + dc, dr, dc)
    ELSE {}

\* The cells of the full main word of the candidate
MainWordCells ==
    LET start == WordStart(call.row, call.col, Dr(call.direction), Dc(call.direction))
    IN WordCells(start[1], start[2], Dr(call.direction), Dc(call.direction))

NewCellSet == {CallCell(i) : i \in NewPositions}

\* The new tile put on cell p
NewTileAt(p) == call.tiles[CHOOSE i \in NewPositions : CallCell(i) = p]

\* Face value of the tile on p, times the letter multiplier when the tile is new
LetterScore(p) ==
    IF p \in DOMAIN board THEN board[p].value
    ELSE NewTileAt(p).value * RefLetterMult(p)

\* The board tiles running from p (excluded) in steps of (dr,dc)
RECURSIVE BoardRun(_, _, _)
BoardRun(p, dr, dc) ==
    LET q == <<p[1] + dr, p[2] + dc>>
    IN IF q \in DOMAIN board THEN {q} \cup BoardRun(q, dr, dc) ELSE {}

\* Main word: letter scores of all its cells, times the word multipliers of
\* the newly covered cells
RefMainScore ==
    Sum([p \in MainWordCells |-> LetterScore(p)], MainWordCells)
    * Product([p \in NewCellSet |-> RefWordMult(p)], NewCellSet)

\* Cross word of the new tile at position i of the candidate
RefCrossScore(i) ==
    LET p == CallCell(i)
        d == Across(call.direction)
        run == BoardRun(p, -Dr(d), -Dc(d)) \cup BoardRun(p, Dr(d), Dc(d))
    IN (LetterScore(p) + Sum([q \in run |-> board[q].value], run)) * RefWordMult(p)

RefScore == RefMainScore + Sum([i \in CrossPositions |-> RefCrossScore(i)], CrossPositions)

RefBonus == IF Cardinality(NewPositions) = BINGO_TILES THEN BINGO_BONUS ELSE 0

\* The tiles of the candidate cover its main word from the first cell to the last
SpansMainWord == MainWordCells = {CallCell(i) : i \in CallPositions}

\* C11: the score of every accepted candidate that places a new tile, less the
\* 7-tile bonus, is the reference value: the letter scores of the full
\* reconstructed main word (new tiles with their letter multiplier, board tiles
\* at face value) times the word multipliers of the newly covered cells, plus
\* the cross word of every new tile with a perpendicular neighbour.
C11_ScoreIsReference ==
    (pc = "scored" /\ scoreResult.isValid /\ NewPositions # {}) =>
        scoreResult.score = RefScore + RefBonus

\* The score is the reference value for the accepted candidates whose tiles
\* cover the whole main word
FullWordScoreIsReference ==
    (pc = "scored" /\ scoreResult.isValid /\ SpansMainWord) =>
        scoreResult.score = RefScore + RefBonus

\* ------------------------------------------------------------------------
\* Seven-tile plays: a payload with long words, racks of seven
\* ------------------------------------------------------------------------
LONG_WORDS ==
    {<<"A","S">>, <<"C","A","S","A","D","E","S">>, <<"A","C","A","S","A","D","E","S">>}

LONG_DISC == FrozenTrie(LONG_WORDS)

\* The board after the first round played AS from the center
LongBoard == PlaceTiles(Board0, Tiles(<<"A","S">>), 7, 7, "H")

LongRacks == {<<"C","A","S","A","D","E","S">>, <<"C","A","S","A","D","E","?">>}

LongTileLists ==
    {Tiles(<<"C","A","S","A","D","E","S">>), Tiles(<<"C","A","S","A","D","E","s">>),
     Tiles(<<"A","C","A","S","A","D","E","S">>), Tiles(<<"C","A","S","A","D","E">>),
     Tiles(<<"A","S">>)}

LongStartCells ==
    {<<7, 1>>, <<7, 4>>, <<7, 7>>, <<6, 7>>, <<1, 7>>, <<7, 6>>, <<7, 8>>, <<8, 7>>, <<3, 3>>}

InitLong ==
    /\ trieInstance = LONG_DISC
    /\ currentDictionaryName = "DISC"
    /\ currentDictionaryData = Payload(LONG_WORDS, "1")
    /\ loads = {}
    /\ lastLoad = Null
    /\ firstCall = Off
    /\ inputWord = <<>>
    /\ parsedTiles = <<>>
    /\ gameBoard = Off
    /\ NoSelect
    /\ NoGame
    /\ board \in {TilesOf(Board0), TilesOf(LongBoard)}
    /\ currentRack \in LongRacks
    /\ pc = "ready"
    /\ call = NoCall
    /\ scoreResult = Null
    /\ bestMoves = <<>>

\* Validator calls on the candidates of LongTileLists x LongStartCells x Directions
NextLong ==
    \/ \E tiles \in LongTileLists, cell \in LongStartCells, direction \in Directions :
          CallCalculateMoveScore(tiles, cell[1], cell[2], direction)
    \/ Return

SpecLong == InitLong /\ [][NextLong]_vars

\* The score of the supplied tiles, without bonus: their letter scores times
\* the word multipliers of the newly covered cells, plus the cross words
SuppliedScore ==
    LET cells == {CallCell(i) : i \in CallPositions}
    IN Sum([p \in cells |-> LetterScore(p)], cells)
       * Product([p \in NewCellSet |-> RefWordMult(p)], NewCellSet)
       + Sum([i \in CrossPositions |-> RefCrossScore(i)], CrossPositions)

\* C12: the score of an accepted move includes the +50 bonus if and only if
\* exactly 7 tiles were newly placed from the rack; the tiles of the candidate
\* that lie on board tiles do not count towards the 7.
C12_BonusIffSevenNewTiles ==
    (pc = "scored" /\ scoreResult.isValid) =>
        IF Cardinality(NewPositions) = 7
        THEN scoreResult.score = SuppliedScore + 50
        ELSE scoreResult.score = SuppliedScore

\* An accepted candidate of eight tiles, the first on a board tile and seven
\* new, scored with the bonus
C12_Witness ==
    /\ pc = "scored"
    /\ scoreResult.isValid
    /\ Len(call.tiles) = 8
    /\ Cardinality(NewPositions) = 7
    /\ scoreResult.score = SuppliedScore + 50

\* ------------------------------------------------------------------------
\* Typed words: parseInputWord, internalToDisplayWord, and their use by the
\* pages that submit a typed word to the validator
\* ------------------------------------------------------------------------
MaxInput == 3          \* longest typed word

UpperString(str) == [k \in 1..Len(str) |-> toUpperCase(str[k])]

\* Variant of internalToDisplayWord that looks the upper-cased character up
internalToDisplayWord_UpperKey(word) ==
    LET RECURSIVE Join(_)
        Join(k) == IF k > Len(word) THEN <<>>
                   ELSE (IF REVERSE_DIGRAPH_MAP(toUpperCase(word[k])) # <<>>
                         THEN REVERSE_DIGRAPH_MAP(toUpperCase(word[k]))
                         ELSE <<word[k]>>) \o Join(k + 1)
    IN Join(1)

\* internalToDisplayWord(word): every character mapped through
\* REVERSE_DIGRAPH_MAP under its own (not upper-cased) key
internalToDisplayWord(word) ==
    LET RECURSIVE Join(_)
        Join(k) == IF k > Len(word) THEN <<>>
                   ELSE (IF REVERSE_DIGRAPH_MAP(word[k]) # <<>>
                         THEN REVERSE_DIGRAPH_MAP(word[k])
                         ELSE <<word[k]>>) \o Join(k + 1)
    IN Join(1)

\* The loop of parseInputWord from index i (counted from 1)
RECURSIVE ParseFrom(_, _)
ParseFrom(input, i) ==
    IF i > Len(input) THEN <<>>
    ELSE LET char == input[i]
             twoChars == SubSeq(input, i, IF i + 1 <= Len(input) THEN i + 1 ELSE i)
             threeChars == SubSeq(input, i, IF i + 2 <= Len(input) THEN i + 2 ELSE Len(input))
             lower == char = toLowerCase(char)
         IN IF UpperString(threeChars) \in {<<"L",MidDot,"L">>, <<"L",".","L">>, <<"L","-","L">>}
            THEN <<createTile(IF lower THEN "l/" ELSE "L/")>> \o ParseFrom(input, i + 3)
            ELSE IF UpperString(twoChars) \in {<<"Q","U">>, <<"N","Y">>}
                    /\ DIGRAPH_MAP(UpperString(twoChars)) # ""
            THEN <<createTile(IF lower THEN toLowerCase(DIGRAPH_MAP(UpperString(twoChars)))
                              ELSE DIGRAPH_MAP(UpperString(twoChars)))>>
                 \o ParseFrom(input, i + 2)
            ELSE IF toUpperCase(char) = "Q"
            THEN <<createTile(IF char = "q" THEN "u^" ELSE "U^")>> \o ParseFrom(input, i + 1)
            ELSE <<createTile(char)>> \o ParseFrom(input, i + 1)

parseInputWord(input) == ParseFrom(input, 1)

\* tiles.map(t => t.char).join('')
InternalWord(tiles) == [k \in 1..Len(tiles) |-> tiles[k].char]

InputChars == {"A", "a", "S", "C", "Q", "q", "U", "L", "l", MidDot, "N", "Y"}

InputWords == UNION {[1..n -> InputChars] : n \in 0..MaxInput}

SubmitCells == {<<7, 8>>, <<8, 7>>}

InitInput ==
    /\ trieInstance = DISC
    /\ currentDictionaryName = "DISC"
    /\ currentDictionaryData = Payload(DISC_WORDS, "1")
    /\ loads = {}
    /\ lastLoad = Null
    /\ firstCall = Off
    /\ board = TilesOf(Board1)
    /\ currentRack = <<"A", "S", "?">>
    /\ pc = "ready"
    /\ call = NoCall
    /\ scoreResult = Null
    /\ bestMoves = <<>>
    /\ inputWord \in InputWords
    /\ parsedTiles = <<>>
    /\ gameBoard = Off
    /\ NoSelect
    /\ NoGame

\* The page parses the typed word
CallParseInputWord ==
    /\ pc = "ready"
    /\ parsedTiles' = parseInputWord(inputWord)
    /\ UNCHANGED <<trieInstance, board, currentRack, pc, call, scoreResult, bestMoves,
                   dictVars, firstCall, inputWord, gameBoard, selectVars, gameVars>>

\* The page fills the edit input with the display form of the parsed word
PrefillInput ==
    /\ pc = "ready"
    /\ parsedTiles # <<>>
    /\ inputWord' = internalToDisplayWord(InternalWord(parsedTiles))
    /\ UNCHANGED <<trieInstance, board, currentRack, pc, call, scoreResult, bestMoves,
                   dictVars, firstCall, parsedTiles, gameBoard, selectVars, gameVars>>

NextInput ==
    \/ CallParseInputWord
    \/ PrefillInput
    \/ \E cell \in SubmitCells, direction \in Directions :
          parsedTiles # <<>> /\ CallCalculateMoveScore(parsedTiles, cell[1], cell[2], direction)
    \/ Return

SpecInput == InitInput /\ [][NextInput]_vars

\* The points of a tile: none for a blank, else the value of its letter
PointsOf(tile) == IF tile.isBlank THEN 0 ELSE LETTER_VALUES(toUpperCase(tile.char))

\* The points of the tile on cell p, times the letter multiplier when it is new
CellPoints(p) ==
    IF p \in DOMAIN board THEN PointsOf(board[p])
    ELSE PointsOf(NewTileAt(p)) * RefLetterMult(p)

CrossPoints(i) ==
    LET p == CallCell(i)
        d == Across(call.direction)
        run == BoardRun(p, -Dr(d), -Dc(d)) \cup BoardRun(p, Dr(d), Dc(d))
    IN (CellPoints(p) + Sum([q \in run |-> PointsOf(board[q])], run)) * RefWordMult(p)

\* The score of the supplied tiles when every blank counts 0
BlankFreeScore ==
    LET cells == {CallCell(i) : i \in CallPositions}
    IN Sum([p \in cells |-> CellPoints(p)], cells)
       * Product([p \in NewCellSet |-> RefWordMult(p)], NewCellSet)
       + Sum([i \in CrossPositions |-> CrossPoints(i)], CrossPositions)
       + RefBonus

\* C13: a blank tile contributes 0 points: every tile made by parseInputWord
\* (through createTile) with isBlank has value 0, and the score of an accepted
\* candidate is the score in which the blanks, new or on the board, in the main
\* word or in a cross word, count 0.
C13_BlankScoresZero ==
    /\ \A k \in 1..Len(parsedTiles) : parsedTiles[k].isBlank => parsedTiles[k].value = 0
    /\ (pc = "scored" /\ scoreResult.isValid) => scoreResult.score = BlankFreeScore

\* An accepted typed play with a new blank beside a board blank, with points
C13_Witness ==
    /\ pc = "scored"
    /\ scoreResult.isValid
    /\ scoreResult.score > 0
    /\ \E i \in NewPositions : call.tiles[i].isBlank
    /\ \E p \in DOMAIN board : board[p].isBlank
    /\ call.tiles = parsedTiles

MaxLoads == 2          \* most loadDictionary calls suspended at the same time

\* AVAILABLE_DICTIONARIES
DictNames == {"DISC", "LEXIMOTS"}

LEXIMOTS_WORDS == DISC_WORDS \cup {<<"S","A">>}

DISC_WORDS_2 == DISC_WORDS \cup {<<"A","C">>}

FALLBACK_WORDS == {<<"C","A">>, <<"A","S">>, <<"C","A","S">>}

\* A payload that carries no trie
NoTrie(version) == [version |-> version]

\* What response.json() can resolve to for ./dictionaries/<name>.json
Served(name) ==
    IF name = "DISC"
    THEN {Payload(DISC_WORDS, "1"), Payload(DISC_WORDS_2, "2"), NoTrie("1")}
    ELSE {Payload(LEXIMOTS_WORDS, "1"), NoTrie("1")}

\* The embedded fallback dictionary for DISC
fallbackDisc == Payload(FALLBACK_WORDS, "0")

DictState(trie, name, data) == [trieInstance |-> trie, name |-> name, data |-> data]

\* The data loadDictionary goes on with: the fetched data, or the fallback
LoadData(name, fetched) ==
    IF fetched = Null /\ name = "DISC" THEN fallbackDisc ELSE fetched

\* The load throws: no data, or data without a trie
LoadThrows(name, fetched) == "trie" \notin DOMAIN LoadData(name, fetched)

\* Variant of FinishLoad that tears the dictionary down when the load fails
FinishLoad_ClearOnError(st, name, fetched) ==
    IF LoadThrows(name, fetched) THEN DictState(Null, "ERROR", Null)
    ELSE DictState(FrozenTrie(LoadData(name, fetched).trie), name, LoadData(name, fetched))

\* Variant of FinishLoad that takes the name over before the data is examined
FinishLoad_NameFirst(st, name, fetched) ==
    IF LoadThrows(name, fetched)
    THEN IF st.trieInstance = Null THEN DictState(Null, "ERROR", Null)
         ELSE [st EXCEPT !.name = name]
    ELSE DictState(FrozenTrie(LoadData(name, fetched).trie), name, LoadData(name, fetched))

\* loadDictionary after its awaits, with `fetched` the data of the response
\* (Null when the fetch failed, the status was not ok or json() threw): the
\* module state it leaves
FinishLoad(st, name, fetched) ==
    IF LoadThrows(name, fetched)
    THEN IF st.trieInstance = Null THEN DictState(Null, "ERROR", Null) ELSE st
    ELSE DictState(FrozenTrie(LoadData(name, fetched).trie), name, LoadData(name, fetched))

\* The rest of call l, run without suspension to the end of loadDictionary
RunToEnd(l, fetched) ==
    LET st == FinishLoad(DictState(trieInstance, currentDictionaryName, currentDictionaryData),
                         l.name, fetched)
    IN /\ trieInstance' = st.trieInstance
       /\ currentDictionaryName' = st.name
       /\ currentDictionaryData' = st.data
       /\ loads' = loads \ {l}
       /\ lastLoad' = IF lastLoad = Off THEN Off
                       ELSE [name |-> l.name, fetched |-> fetched,
                             threw |-> LoadThrows(l.name, fetched), rejected |-> FALSE]
       /\ UNCHANGED <<board, currentRack, pc, call, scoreResult, bestMoves, firstCall, inputVars, gameBoard, selectVars, gameVars>>

\* loadDictionary(name) up to its first await: returns at once when that
\* dictionary is the loaded one, else suspends at fetch
CallLoadDictionary(name) ==
    /\ Cardinality(loads) < MaxLoads
    /\ IF trieInstance # Null /\ currentDictionaryName = name
       THEN UNCHANGED vars
       ELSE /\ loads' = loads \cup
                  {[id |-> CHOOSE i \in 1..MaxLoads : \A l \in loads : l.id # i,
                    name |-> name, at |-> "fetch"]}
            /\ UNCHANGED <<trieInstance, currentDictionaryName, currentDictionaryData, lastLoad,
                           board, currentRack, pc, call, scoreResult, bestMoves, firstCall,
                           inputVars, gameBoard, selectVars, gameVars>>

\* The fetch of call l settles: with an ok response the call suspends at
\* response.json(); with another status or a rejection it runs to its end
\* without data
FetchSettles(l, ok) ==
    /\ l \in loads
    /\ l.at = "fetch"
    /\ IF ok
       THEN /\ loads' = (loads \ {l}) \cup {[l EXCEPT !.at = "json"]}
            /\ UNCHANGED <<trieInstance, currentDictionaryName, currentDictionaryData, lastLoad,
                           board, currentRack, pc, call, scoreResult, bestMoves, firstCall,
                           inputVars, gameBoard, selectVars, gameVars>>
       ELSE RunToEnd(l, Null)

\* response.json() of call l settles with data, or rejects (fetched = Null)
JsonSettles(l, fetched) ==
    /\ l \in loads
    /\ l.at = "json"
    /\ RunToEnd(l, fetched)

InitDict ==
    /\ trieInstance = Null
    /\ currentDictionaryName = ""
    /\ currentDictionaryData = Null
    /\ loads = {}
    /\ lastLoad = Null
    /\ firstCall = Off
    /\ board = TilesOf(Board1)
    /\ currentRack = <<"A", "C">>
    /\ pc = "ready"
    /\ call = NoCall
    /\ scoreResult = Null
    /\ bestMoves = <<>>
    /\ inputWord = <<>>
    /\ parsedTiles = <<>>
    /\ gameBoard = Off
    /\ NoSelect
    /\ NoGame

\* The dictionary loads of the pages, overlapping
NextDict ==
    \/ \E name \in DictNames : CallLoadDictionary(name)
    \/ \E l \in loads, ok \in BOOLEAN : FetchSettles(l, ok)
    \/ \E l \in loads : \E fetched \in Served(l.name) \cup {Null} : JsonSettles(l, fetched)

SpecDict == InitDict /\ [][NextDict]_vars

\* Candidates on Board1 whose word is CASA (in DISC and LEXIMOTS), SA (in
\* LEXIMOTS only), AC (in version 2 of DISC only), CASC (in none), and one
\* the rack cannot pay
DictCandidates ==
    {[tiles |-> Tiles(<<"S","A">>), row |-> 7, col |-> 8, direction |-> "H"],
     [tiles |-> Tiles(<<"S","A">>), row |-> 7, col |-> 8, direction |-> "V"],
     [tiles |-> Tiles(<<"A","C">>), row |-> 7, col |-> 7, direction |-> "V"],
     [tiles |-> Tiles(<<"S","C">>), row |-> 7, col |-> 8, direction |-> "H"],
     [tiles |-> Tiles(<<"S","S">>), row |-> 7, col |-> 8, direction |-> "H"]}

InitHost ==
    /\ trieInstance = Null
    /\ currentDictionaryName = ""
    /\ currentDictionaryData = Null
    /\ loads = {}
    /\ lastLoad = Off
    /\ firstCall = Null
    /\ board = TilesOf(Board1)
    /\ currentRack = <<"A", "C">>
    /\ pc = "ready"
    /\ call = NoCall
    /\ scoreResult = Null
    /\ bestMoves = <<>>
    /\ inputWord = <<>>
    /\ parsedTiles = <<>>
    /\ gameBoard = Off
    /\ NoSelect
    /\ NoGame

\* The page loads dictionaries, one call at a time, while the host validates
\* candidates
NextHost ==
    \/ \E name \in DictNames : loads = {} /\ CallLoadDictionary(name)
    \/ \E l \in loads, ok \in BOOLEAN : FetchSettles(l, ok)
    \/ \E l \in loads : \E fetched \in Served(l.name) \cup {Null} : JsonSettles(l, fetched)
    \/ \E c \in DictCandidates : CallCalculateMoveScore(c.tiles, c.row, c.col, c.direction)
    \/ Return

SpecHost == InitHost /\ [][NextHost]_vars

\* A loadDictionary call runs to its end in this step
LoadEnds == Cardinality(loads') < Cardinality(loads)

DictUnchanged == UNCHANGED <<trieInstance, currentDictionaryName, currentDictionaryData>>

\* C15 as stated: a loadDictionary call whose payload is missing or has no
\* trie, ending while a dictionary is loaded, leaves the active trie, name and
\* version unchanged and does not throw to its caller.
C15_FailedLoadAsStated ==
    [][(LoadEnds /\ trieInstance # Null /\ "trie" \notin DOMAIN lastLoad'.fetched)
          => (DictUnchanged /\ ~lastLoad'.rejected)]_vars

\* C15: a loadDictionary call that fails (no data with a trie, after the
\* embedded fallback of DISC has been tried), ending while a dictionary is
\* loaded, leaves the active trie, name and version unchanged and does not
\* throw to its caller.
C15_FailedLoadKeepsDictionary ==
    [][(LoadEnds /\ trieInstance # Null /\ lastLoad'.threw)
          => (DictUnchanged /\ ~lastLoad'.rejected)]_vars

\* A load has failed on a payload without trie and a dictionary is loaded
C15_Witness ==
    /\ lastLoad # Null
    /\ lastLoad.threw
    /\ lastLoad.fetched # Null
    /\ trieInstance # Null

\* The payloads with a trie that a load of `name` can end with
Loadable(name) ==
    {p \in Served(name) \cup (IF name = "DISC" THEN {fallbackDisc} ELSE {}) : "trie" \in DOMAIN p}

\* C16: in every state, also between the steps of overlapping loadDictionary
\* calls, the active trie, name and data (version) are those of one
\* successfully loaded payload, or all three say that nothing is loaded.
C16_DictionaryConsistent ==
    \/ /\ trieInstance = Null
       /\ currentDictionaryData = Null
       /\ currentDictionaryName \in {"", "ERROR"}
    \/ \E name \in DictNames : \E p \in Loadable(name) :
          /\ trieInstance = FrozenTrie(p.trie)
          /\ currentDictionaryName = name
          /\ currentDictionaryData = p

\* LEXIMOTS has replaced DISC while another call for DISC is suspended
C16_Witness ==
    /\ trieInstance = FrozenTrie(LEXIMOTS_WORDS)
    /\ lastLoad # Null
    /\ lastLoad.name = "LEXIMOTS"
    /\ \E l \in loads : l.name = "DISC" /\ l.at = "json"

\* A later calculateMoveScore call with the arguments of the first one (the
\* board and the rack are those of the first call throughout)
SameCallAgain == pc # "scored" /\ pc' = "scored" /\ firstCall # Null /\ firstCall.call = call'

SameResult ==
    /\ scoreResult'.score = firstCall.result.score
    /\ scoreResult'.isValid = firstCall.result.isValid

UnloadedCells == {<<7, 6>>, <<7, 7>>, <<7, 8>>, <<8, 7>>, <<6, 9>>, <<0, 0>>, <<7, 14>>}

\* No dictionary: never loaded, or the first load failed
InitUnloaded ==
    /\ trieInstance = Null
    /\ currentDictionaryName \in {"", "ERROR"}
    /\ currentDictionaryData = Null
    /\ loads = {}
    /\ lastLoad = Off
    /\ firstCall = Off
    /\ board \in {TilesOf(Board0), TilesOf(Board1)}
    /\ currentRack \in {<<"C", "A", "S", "A">>, <<"A", "S", "?">>}
    /\ pc = "ready"
    /\ call = NoCall
    /\ scoreResult = Null
    /\ bestMoves = <<>>
    /\ inputWord = <<>>
    /\ parsedTiles = <<>>
    /\ gameBoard = Off
    /\ NoSelect
    /\ NoGame

NextUnloaded ==
    \/ \E tiles \in TileLists, cell \in UnloadedCells, direction \in Directions :
          pc = "ready" /\ CallCalculateMoveScore(tiles, cell[1], cell[2], direction)
    \/ \E limit \in 0..MaxLimit : CallFindBestMoves(limit)
    \/ Return

SpecUnloaded == InitUnloaded /\ [][NextUnloaded]_vars

\* The rules of calculateMoveScore other than the dictionary's
OtherRulesPass ==
    /\ CallInBoard
    /\ Conflicts = {}
    /\ Payable(NewPositions)
    /\ IF DOMAIN board = {} THEN CoversCenter /\ Len(call.tiles) >= 2
       ELSE OldPositions # {} \/ NewTileAdjacent

\* C17: while no dictionary is loaded findBestMoves returns an empty list, and
\* calculateMoveScore accepts a candidate exactly when the rules other than the
\* dictionary's pass, whatever its words, and never reports an invalid word.
C17_FailClosedFailOpen ==
    trieInstance = Null =>
        /\ pc = "found" => bestMoves = <<>>
        /\ pc = "scored" =>
              /\ scoreResult.isValid <=> OtherRulesPass
              /\ scoreResult.error # Null => scoreResult.error.kind # "InvalidWord"

\* A candidate forming CASC beside the board's CaS, accepted with no dictionary
C17_Witness ==
    /\ pc = "scored"
    /\ trieInstance = Null
    /\ scoreResult.isValid
    /\ NewPositions # {}
    /\ call.tiles = Tiles(<<"S","C">>)
    /\ board = TilesOf(Board1)

\* ------------------------------------------------------------------------
\* The stored board of a game: creation and the moves applied round by round
\* ------------------------------------------------------------------------
MaxPlaced == 3         \* a move is applied while fewer tiles than this lie on the board

\* applyMoveToBoard(board, move): every tile of the move inside the board is
\* assigned to its cell
applyMoveToBoard(bd, tiles, row, col, direction) ==
    [r \in Idx |-> [c \in Idx |->
        LET i == IF direction = "H" THEN c - col + 1 ELSE r - row + 1
            onLine == IF direction = "H" THEN r = row ELSE c = col
        IN IF onLine /\ i \in 1..Len(tiles)
           THEN [bd[r][c] EXCEPT !.tile = tiles[i]]
           ELSE bd[r][c]]]

\* tilesUsed of finalizeRound and prepareNextRound: the rack characters of the
\* tiles that went to empty cells, in the order of the move
RECURSIVE TilesUsed(_, _, _, _, _, _)
TilesUsed(bd, tiles, row, col, direction, i) ==
    IF i > Len(tiles) THEN <<>>
    ELSE LET r == row + (i - 1) * Dr(direction)
             c == col + (i - 1) * Dc(direction)
         IN (IF InBoard(r, c) /\ bd[r][c].tile = Null
             THEN <<IF tiles[i].isBlank THEN "?" ELSE toUpperCase(tiles[i].char)>>
             ELSE <<>>) \o TilesUsed(bd, tiles, row, col, direction, i + 1)

\* The rack left when the used characters are taken out one by one
RECURSIVE RackLeft(_, _)
RackLeft(rack, used) ==
    IF used = <<>> THEN rack
    ELSE RackLeft(IF IndexOf(rack, used[1]) # 0 THEN RemoveAt(rack, IndexOf(rack, used[1]))
                  ELSE rack,
                  Tail(used))

RoundMoves ==
    {[tiles |-> t, row |-> p[1], col |-> p[2], direction |-> d] :
        t \in {Tiles(<<"C","A">>), Tiles(<<"A","S">>), Tiles(<<"a","S">>)},
        p \in {<<7, 7>>, <<6, 7>>, <<7, 14>>},
        d \in Directions}

RoundRacks == {<<"C", "A", "S", "A">>, <<"A", "S", "?">>}

RoundIdle ==
    UNCHANGED <<trieInstance, call, scoreResult, bestMoves, dictVars, firstCall, inputVars,
                selectVars, gameVars>>

\* createNewGame: a new board and an empty rack
CreateGame ==
    /\ pc = "ready"
    /\ gameBoard' = createInitialBoard
    /\ board' = TilesOf(gameBoard')
    /\ currentRack' = <<>>
    /\ UNCHANGED pc
    /\ RoundIdle

\* updateRack(gameId, newRack): the master fills the rack
UpdateRack(newRack) ==
    /\ pc = "ready"
    /\ currentRack' = newRack
    /\ UNCHANGED <<gameBoard, board, pc>>
    /\ RoundIdle

\* parseEliotXML, up to the first turn: the running board of the import
StartImport ==
    /\ pc = "ready"
    /\ gameBoard' = createInitialBoard
    /\ board' = TilesOf(gameBoard')
    /\ pc' = "importing"
    /\ UNCHANGED currentRack
    /\ RoundIdle

\* importEliotGame, after parseEliotXML: the running board is stored as the
\* board of the new game
FinishImport ==
    /\ pc = "importing"
    /\ pc' = "ready"
    /\ UNCHANGED <<gameBoard, board, currentRack>>
    /\ RoundIdle

\* finalizeRound(gameId, masterMove), "Generate New Board" and "Generate New Rack"
FinalizeRound(move) ==
    /\ pc = "ready"
    /\ Cardinality(DOMAIN board) < MaxPlaced
    /\ gameBoard' = PlaceTiles(gameBoard, move.tiles, move.row, move.col, move.direction)
    /\ board' = TilesOf(gameBoard')
    /\ currentRack' = RackLeft(currentRack,
                         TilesUsed(gameBoard, move.tiles, move.row, move.col, move.direction, 1))
    /\ UNCHANGED pc
    /\ RoundIdle

\* prepareNextRound(gameId): the board and the rack regenerated from the
\* completed round and its master move
PrepareNextRound(move) ==
    /\ pc = "ready"
    /\ Cardinality(DOMAIN board) < MaxPlaced
    /\ gameBoard' = PlaceTiles(gameBoard, move.tiles, move.row, move.col, move.direction)
    /\ board' = TilesOf(gameBoard')
    /\ currentRack' = RackLeft(currentRack,
                         TilesUsed(gameBoard, move.tiles, move.row, move.col, move.direction, 1))
    /\ UNCHANGED pc
    /\ RoundIdle

\* parseEliotXML, one turn: the master move read from the file is applied to
\* the running board; the rack is the one the file gives for the turn
ImportEliotTurn(move) ==
    /\ pc = "importing"
    /\ Cardinality(DOMAIN board) < MaxPlaced
    /\ gameBoard' = applyMoveToBoard(gameBoard, move.tiles, move.row, move.col, move.direction)
    /\ board' = TilesOf(gameBoard')
    /\ currentRack' \in RoundRacks
    /\ UNCHANGED pc
    /\ RoundIdle

InitRound ==
    /\ trieInstance = DISC
    /\ currentDictionaryName = "DISC"
    /\ currentDictionaryData = Payload(DISC_WORDS, "1")
    /\ loads = {}
    /\ lastLoad = Off
    /\ firstCall = Off
    /\ NoSelect
    /\ NoGame
    /\ gameBoard = createInitialBoard
    /\ board = TilesOf(gameBoard)
    /\ currentRack = <<>>
    /\ pc = "ready"
    /\ call = NoCall
    /\ scoreResult = Null
    /\ bestMoves = <<>>
    /\ inputWord = <<>>
    /\ parsedTiles = <<>>

NextRound ==
    \/ CreateGame
    \/ \E newRack \in RoundRacks : UpdateRack(newRack)
    \/ StartImport
    \/ FinishImport
    \/ \E move \in RoundMoves : FinalizeRound(move)
    \/ \E move \in RoundMoves : PrepareNextRound(move)
    \/ \E move \in RoundMoves : ImportEliotTurn(move)

SpecRound == InitRound /\ [][NextRound]_vars

\* The number of cells of a board with a multiplier
MultCount(bd, type) == Cardinality({p \in Idx \X Idx : bd[p[1]][p[2]].multiplier = type})

\* The board is 15 x 15 and the multipliers, but for the double letters and the
\* normal cells, are as many as stated
LayoutBasics(bd) ==
    /\ DOMAIN bd = Idx
    /\ \A r \in Idx : DOMAIN bd[r] = Idx
    /\ MultCount(bd, "Center") = 1
    /\ MultCount(bd, "TripleWord") = 8
    /\ MultCount(bd, "DoubleWord") = 16
    /\ MultCount(bd, "TripleLetter") = 12

NoTiles(bd) == \A r \in Idx : \A c \in Idx : bd[r][c].tile = Null

\* C18 as stated: the created board is 15 x 15 with every cell empty, 1 Center,
\* 8 TripleWord, 16 DoubleWord, 12 TripleLetter and 22 DoubleLetter cells, and
\* the remaining cells Normal.
C18_LayoutAsStated ==
    DOMAIN board = {} =>
        /\ NoTiles(gameBoard)
        /\ LayoutBasics(gameBoard)
        /\ MultCount(gameBoard, "DoubleLetter") = 22
        /\ MultCount(gameBoard, "Normal") = 225 - (1 + 8 + 16 + 12 + 22)

\* C18: the created board is 15 x 15 with every cell empty, 1 Center,
\* 8 TripleWord, 16 DoubleWord, 12 TripleLetter and 24 DoubleLetter cells, and
\* the remaining 164 cells Normal.
C18_Layout ==
    DOMAIN board = {} =>
        /\ NoTiles(gameBoard)
        /\ LayoutBasics(gameBoard)
        /\ MultCount(gameBoard, "DoubleLetter") = 24
        /\ MultCount(gameBoard, "Normal") = 164

\* A board just created for a game
C18_Witness ==
    /\ gameBoard = createInitialBoard
    /\ DOMAIN board = {}
    /\ gameBoard[CENTER][CENTER].multiplier = "Center"
    /\ gameBoard[3][7].multiplier = "DoubleLetter"

\* C19: applying a move to the stored board changes no occupied cell and no
\* multiplier; only empty cells become occupied.
C19_OccupiedCellsKept ==
    [][\A r \in Idx : \A c \in Idx :
          /\ gameBoard'[r][c].multiplier = gameBoard[r][c].multiplier
          /\ (gameBoard[r][c].tile # Null /\ DOMAIN board' # {}) =>
                gameBoard'[r][c].tile = gameBoard[r][c].tile]_vars

\* The moves applied by finalizeRound and prepareNextRound change no occupied
\* cell and no multiplier
RoundBoardKept ==
    [][(\E move \in RoundMoves : FinalizeRound(move) \/ PrepareNextRound(move)) =>
          \A r \in Idx : \A c \in Idx :
             /\ gameBoard'[r][c].multiplier = gameBoard[r][c].multiplier
             /\ gameBoard[r][c].tile # Null => gameBoard'[r][c].tile = gameBoard[r][c].tile]_vars

\* ------------------------------------------------------------------------
\* The spans of the typed word (C21)
\* ------------------------------------------------------------------------

\* The loop of getTileIndices from index i (counted from 1); start and end are
\* the indices of the code, counted from 0
RECURSIVE IndicesFrom(_, _)
IndicesFrom(input, i) ==
    IF i > Len(input) THEN <<>>
    ELSE LET char == input[i]
             twoChars == SubSeq(input, i, IF i + 1 <= Len(input) THEN i + 1 ELSE i)
             threeChars == SubSeq(input, i, IF i + 2 <= Len(input) THEN i + 2 ELSE Len(input))
         IN IF UpperString(threeChars) \in {<<"L",MidDot,"L">>, <<"L",".","L">>, <<"L","-","L">>}
            THEN <<[start |-> i - 1, end |-> i + 2]>> \o IndicesFrom(input, i + 3)
            ELSE IF UpperString(twoChars) \in {<<"Q","U">>, <<"N","Y">>}
            THEN <<[start |-> i - 1, end |-> i + 1]>> \o IndicesFrom(input, i + 2)
            ELSE IF toUpperCase(char) = "Q"
            THEN <<[start |-> i - 1, end |-> i]>> \o IndicesFrom(input, i + 1)
            ELSE <<[start |-> i - 1, end |-> i]>> \o IndicesFrom(input, i + 1)

\* Variant of getTileIndices with one span for every character
getTileIndices_OneCharSpans(input) == [k \in 1..Len(input) |-> [start |-> k - 1, end |-> k]]

getTileIndices(input) == IndicesFrom(input, 1)

\* word.substring(start, end)
Substring(str, start, end) == SubSeq(str, start + 1, end)

LowerString(str) == [k \in 1..Len(str) |-> toLowerCase(str[k])]

\* handleTileClick(index): the case of the segment of the clicked tile is
\* toggled; the effect on [word] parses the new word
HandleTileClick(index) ==
    /\ pc = "ready"
    /\ index + 1 \in DOMAIN getTileIndices(inputWord)
    /\ LET span == getTileIndices(inputWord)[index + 1]
           segment == Substring(inputWord, span.start, span.end)
           newSegment == IF segment = UpperString(segment) THEN LowerString(segment)
                         ELSE UpperString(segment)
       IN inputWord' = Substring(inputWord, 0, span.start) \o newSegment
                          \o Substring(inputWord, span.end, Len(inputWord))
    /\ parsedTiles' = parseInputWord(inputWord')
    /\ UNCHANGED <<trieInstance, board, currentRack, pc, call, scoreResult, bestMoves,
                   dictVars, firstCall, gameBoard, selectVars, gameVars>>

ClickChars == {"Q", "U", "L", MidDot, "N"}

ClickWords == UNION {[1..n -> ClickChars] : n \in 0..MaxInput}

\* The word typed by the player, upper-cased by handleWordChange and parsed by
\* the effect on [word]
InitClick ==
    /\ trieInstance = DISC
    /\ currentDictionaryName = "DISC"
    /\ currentDictionaryData = Payload(DISC_WORDS, "1")
    /\ loads = {}
    /\ lastLoad = Off
    /\ firstCall = Off
    /\ gameBoard = Off
    /\ NoSelect
    /\ NoGame
    /\ inputWord \in {UpperString(typed) : typed \in ClickWords}
    /\ parsedTiles = (IF inputWord = <<>> THEN <<>> ELSE parseInputWord(inputWord))
    /\ board = TilesOf(Board1)
    /\ currentRack = <<"A", "S", "?">>
    /\ pc = "ready"
    /\ call = NoCall
    /\ scoreResult = Null
    /\ bestMoves = <<>>

NextClick ==
    \E index \in 0..(MaxInput - 1) : HandleTileClick(index)

SpecClick == InitClick /\ [][NextClick]_vars

SpansMatchTiles(input, spans, tiles) ==
    /\ Len(spans) = Len(tiles)
    /\ (spans = <<>>) = (input = <<>>)
    /\ spans # <<>> => spans[1].start = 0 /\ spans[Len(spans)].end = Len(input)
    /\ \A k \in 1..(Len(spans) - 1) : spans[k + 1].start = spans[k].end
    /\ \A k \in 1..Len(spans) :
          /\ spans[k].start < spans[k].end
          /\ parseInputWord(Substring(input, spans[k].start, spans[k].end)) = <<tiles[k]>>
          /\ spans[k].end - spans[k].start \in 1..3
          /\ (tiles[k].char \in {"L/", "l/"}) = (spans[k].end - spans[k].start = 3)
          /\ spans[k].end - spans[k].start = 2 => tiles[k].char \in {"U^", "u^", "Y'", "y'"}

\* C21: getTileIndices returns one span per tile of parseInputWord, in order;
\* the spans are contiguous, cover the input, and each is the substring its
\* tile was parsed from (3 characters for the L.L forms, 2 for QU and NY,
\* 1 otherwise, a bare Q included).
C21_SpansMatchTiles ==
    SpansMatchTiles(inputWord, getTileIndices(inputWord), parseInputWord(inputWord))

\* A clicked L.L form: one span of three characters, now a blank
C21_Witness ==
    /\ inputWord = <<"l", MidDot, "l">>
    /\ parsedTiles = <<createTile("l/")>>
    /\ getTileIndices(inputWord) = <<[start |-> 0, end |-> 3]>>

\* ------------------------------------------------------------------------
\* The word an InvalidWord rejection names (C25)
\* ------------------------------------------------------------------------

\* The word of the last call through (r,c) along direction d, as the
\* validator spells it
CallWord(r, c, d) ==
    getFullWordString(Cells(board),
                      NewTilesMap(call.tiles, call.row, call.col,
                                  Dr(call.direction), Dc(call.direction)),
                      r, c, Dr(d), Dc(d))

\* The main word of the last call and the cross word of its i-th tile
CallMainWord == CallWord(call.row, call.col, call.direction)

CallCrossWord(i) == CallWord(CallCell(i)[1], CallCell(i)[2], Across(call.direction))

\* The new tiles whose cross word is not in the dictionary
BadCrossPositions == {i \in CrossPositions : ~validateWord(trieInstance, CallCrossWord(i))}

MainWordBad == Len(CallMainWord) > 1 /\ ~validateWord(trieInstance, CallMainWord)

\* The first invalid word found: the main word, else the cross word of the
\* earliest offending tile
FirstInvalidWord ==
    IF MainWordBad THEN CallMainWord
    ELSE CallCrossWord(CHOOSE i \in BadCrossPositions : \A j \in BadCrossPositions : i <= j)

RejectedForWord == pc = "scored" /\ "word" \in DOMAIN scoreResult.error

\* C25: a candidate that passes the placement, conflict and rack checks but
\* forms a word outside the dictionary is rejected with InvalidWord naming the
\* first invalid word found: the main word if it is invalid, otherwise the
\* cross word of the earliest offending tile along the play axis.
C25_FirstInvalidWordNamed ==
    RejectedForWord => scoreResult = Reject(ErrInvalidWord(FirstInvalidWord))

\* The rejection names an invalid word the candidate forms
InvalidWordIsFormed ==
    RejectedForWord =>
        \/ MainWordBad /\ scoreResult.error.word = CallMainWord
        \/ \E i \in BadCrossPositions : scoreResult.error.word = CallCrossWord(i)

\* ------------------------------------------------------------------------
\* Tiles paid with a wildcard (C27)
\* ------------------------------------------------------------------------

\* The new tile at position i is paid with a '?': the rack holds fewer tiles of
\* its letter than the new tiles of that letter up to position i
PaidByWildcard(i) ==
    Cardinality({k \in NewPositions : k <= i /\ Letter(call.tiles[k]) = Letter(call.tiles[i])})
        > Count(currentRack, Letter(call.tiles[i]))

WildcardPositions == {i \in NewPositions : PaidByWildcard(i)}

\* The points of the tile on cell p when a tile paid with a wildcard counts 0
WildcardPoints(p) ==
    IF p \in DOMAIN board THEN board[p].value
    ELSE IF \E i \in WildcardPositions : CallCell(i) = p THEN 0
    ELSE NewTileAt(p).value * RefLetterMult(p)

WildcardCrossPoints(i) ==
    LET p == CallCell(i)
        d == Across(call.direction)
        run == BoardRun(p, -Dr(d), -Dc(d)) \cup BoardRun(p, Dr(d), Dc(d))
    IN (WildcardPoints(p) + Sum([q \in run |-> board[q].value], run)) * RefWordMult(p)

\* The score of the supplied tiles when every tile paid with a wildcard counts 0
WildcardFreeScore ==
    LET cells == {CallCell(i) : i \in CallPositions}
    IN Sum([p \in cells |-> WildcardPoints(p)], cells)
       * Product([p \in NewCellSet |-> RefWordMult(p)], NewCellSet)
       + Sum([i \in CrossPositions |-> WildcardCrossPoints(i)], CrossPositions)
       + RefBonus

\* C27: a new tile that calculateMoveScore pays with a wildcard ('?') because
\* the rack holds its letter no more contributes 0 points to the main word and
\* to its cross word, whether or not the tile is flagged isBlank.
C27_WildcardScoresZero ==
    (pc = "scored" /\ scoreResult.isValid /\ WildcardPositions # {}) =>
        scoreResult.score = WildcardFreeScore

\* A tile flagged isBlank contributes 0 points however it is paid
FlaggedBlankScoresZero ==
    (pc = "scored" /\ scoreResult.isValid /\ \A i \in WildcardPositions : call.tiles[i].isBlank) =>
        scoreResult.score = WildcardFreeScore

\* ------------------------------------------------------------------------
\* BitString and RankDirectory (C26)
\* ------------------------------------------------------------------------
MaxBits == 6           \* longest bit array handed to a RankDirectory

\* A BitString is held as the sequence of its bits; position p of the code
\* (counted from 0) is element p + 1

\* BitString.get(p, n): the number written by the n bits from position p
RECURSIVE BitsGet(_, _, _)
BitsGet(bits, p, n) ==
    IF n = 0 THEN 0
    ELSE 2 * BitsGet(bits, p, n - 1) + bits[p + n]

\* BitsInByte[v]: the number of bits set in v
RECURSIVE BitsInByte(_)
BitsInByte(v) == IF v = 0 THEN 0 ELSE (v % 2) + BitsInByte(v \div 2)

\* BitString.count(p, n)
RECURSIVE BitsCount(_, _, _)
BitsCount(bits, p, n) ==
    IF n >= 8 THEN BitsInByte(BitsGet(bits, p, 8)) + BitsCount(bits, p + 8, n - 8)
    ELSE BitsInByte(BitsGet(bits, p, n))

\* BitString.rank(x): the bits set in [0, x], one by one
RECURSIVE BitStringRank(_, _)
BitStringRank(bits, x) ==
    IF x < 0 THEN 0
    ELSE BitStringRank(bits, x - 1) + (IF BitsGet(bits, x, 1) # 0 THEN 1 ELSE 0)

\* Math.ceil(Math.log(n) / Math.log(2))
RECURSIVE CeilLog2From(_, _)
CeilLog2From(n, k) == IF 2 ^ k >= n THEN k ELSE CeilLog2From(n, k + 1)

CeilLog2(n) == CeilLog2From(n, 0)

\* The number v written on `width` bits, the highest first
ToBits(v, width) == [k \in 1..width |-> (v \div (2 ^ (width - k))) % 2]

\* The bits set among the first n bits
OnesBefore(bits, n) == Cardinality({k \in 1..Len(bits) : k <= n /\ bits[k] = 1})

RECURSIVE Concat(_, _, _)
Concat(f, from, to) == IF from > to THEN <<>> ELSE f[from] \o Concat(f, from + 1, to)

\* The directory of a bit array as the payload carries it: for every section of
\* l1Size bits, the counts of the section up to each of its inner blocks of
\* l2Size bits (the first left out), then the count of the array up to the end
\* of the section
DirectoryBits(bits, l1Size, l2Size) ==
    LET l1Bits == CeilLog2(Len(bits))
        l2Bits == CeilLog2(l1Size)
        inner == (l1Size \div l2Size) - 1
        Section(s) ==
            Concat([j \in 1..inner |->
                       ToBits(OnesBefore(bits, s * l1Size + j * l2Size)
                                 - OnesBefore(bits, s * l1Size), l2Bits)], 1, inner)
            \o ToBits(OnesBefore(bits, (s + 1) * l1Size), l1Bits)
        last == Len(bits) \div l1Size
    IN Concat([s \in 0..last |-> Section(s)], 0, last)

\* new RankDirectory(directoryData, bitData, numBits, l1Size, l2Size)
RankDirectory(directory, data, numBits, l1Size, l2Size) ==
    [directory |-> directory, data |-> data, l1Size |-> l1Size, l2Size |-> l2Size,
     l1Bits |-> CeilLog2(numBits), l2Bits |-> CeilLog2(l1Size),
     sectionBits |-> ((l1Size \div l2Size) - 1) * CeilLog2(l1Size) + CeilLog2(numBits),
     numBits |-> numBits]

\* RankDirectory.rank(1, x)
RankOnes(rd, x) ==
    LET o == x
        inL1 == o >= rd.l1Size
        sectionPos1 == IF inL1 THEN (o \div rd.l1Size) * rd.sectionBits ELSE 0
        rank1 == IF inL1 THEN BitsGet(rd.directory, sectionPos1 - rd.l1Bits, rd.l1Bits) ELSE 0
        o2 == IF inL1 THEN o % rd.l1Size ELSE o
        inL2 == o2 >= rd.l2Size
        sectionPos2 == IF inL2 THEN sectionPos1 + (o2 \div rd.l2Size) * rd.l2Bits
                       ELSE sectionPos1
        rank2 == IF inL2 THEN rank1 + BitsGet(rd.directory, sectionPos2 - rd.l2Bits, rd.l2Bits)
                 ELSE rank1
    IN rank2 + BitsCount(rd.data, x - (x % rd.l2Size), (x % rd.l2Size) + 1)

\* Variant of RankDirectory.rank that counts the zeros as x - rank(1, x)
RankDirectoryRank_ZerosOffByOne(rd, which, x) ==
    IF which = 0 THEN x - RankOnes(rd, x) ELSE RankOnes(rd, x)

\* RankDirectory.rank(which, x)
RankDirectoryRank(rd, which, x) ==
    IF which = 0 THEN x - RankOnes(rd, x) + 1 ELSE RankOnes(rd, x)

\* The sizes handed to the constructor
DirectorySizes == {<<4, 2>>, <<2, 1>>}

BitArrays == UNION {[1..n -> {0, 1}] : n \in 1..MaxBits}

InitSelect ==
    /\ trieInstance = Null
    /\ currentDictionaryName = ""
    /\ currentDictionaryData = Null
    /\ loads = {}
    /\ lastLoad = Off
    /\ firstCall = Off
    /\ inputWord = <<>>
    /\ parsedTiles = <<>>
    /\ gameBoard = Off
    /\ NoGame
    /\ board = TilesOf(Board0)
    /\ currentRack = <<>>
    /\ pc = "ready"
    /\ call = NoCall
    /\ scoreResult = Null
    /\ bestMoves = <<>>
    /\ \E bits \in BitArrays, sizes \in DirectorySizes :
          rankDirectory = RankDirectory(DirectoryBits(bits, sizes[1], sizes[2]), bits,
                                        Len(bits), sizes[1], sizes[2])
    /\ selectCall = Null

SelectIdle ==
    UNCHANGED <<trieInstance, board, currentRack, pc, call, scoreResult, bestMoves, dictVars,
                firstCall, inputVars, gameBoard, rankDirectory, gameVars>>

\* A select call is inside its loop
SelectRunning == "returned" \in DOMAIN selectCall /\ ~selectCall.returned

\* select(which, y) is called: the variables of the loop before its first test
CallSelect(which, y) ==
    /\ ~SelectRunning
    /\ selectCall' = [which |-> which, y |-> y, high |-> rankDirectory.numBits, low |-> -1,
                      val |-> -1, probes |-> 0, returned |-> FALSE]
    /\ SelectIdle

\* One pass of the while loop of select
SelectProbe ==
    /\ SelectRunning
    /\ selectCall.high - selectCall.low > 1
    /\ LET probe == (selectCall.high + selectCall.low) \div 2
           r == RankDirectoryRank(rankDirectory, selectCall.which, probe)
       IN selectCall' =
             IF r = selectCall.y
             THEN [selectCall EXCEPT !.val = probe, !.high = probe, !.probes = @ + 1]
             ELSE IF r < selectCall.y
             THEN [selectCall EXCEPT !.low = probe, !.probes = @ + 1]
             ELSE [selectCall EXCEPT !.high = probe, !.probes = @ + 1]
    /\ SelectIdle

\* The loop ends and select returns val
SelectReturn ==
    /\ SelectRunning
    /\ selectCall.high - selectCall.low <= 1
    /\ selectCall' = [selectCall EXCEPT !.returned = TRUE]
    /\ SelectIdle

NextSelect ==
    \/ \E which \in {0, 1}, y \in 0..(MaxBits + 1) : CallSelect(which, y)
    \/ SelectProbe
    \/ SelectReturn

SpecSelect == InitSelect /\ [][NextSelect]_vars

\* The bits of kind `which` in [0, p], counted one by one
KindRank(which, p) ==
    IF which = 1 THEN BitStringRank(rankDirectory.data, p)
    ELSE p + 1 - BitStringRank(rankDirectory.data, p)

\* The positions whose rank is y
RankPositions(which, y) == {p \in 0..(rankDirectory.numBits - 1) : KindRank(which, p) = y}

\* C26: select is the inverse of rank: select(which, k) returns the smallest
\* position p with rank(which, p) = k, the position of the k-th bit of kind
\* `which` for k from 1 to the number of such bits, and -1 when no position has
\* rank k; the binary search ends within a number of probes bounded by the
\* logarithm of the number of bits.
C26_SelectInvertsRank ==
    "returned" \in DOMAIN selectCall =>
        /\ selectCall.probes <= CeilLog2(rankDirectory.numBits + 1)
        /\ selectCall.returned =>
              LET found == RankPositions(selectCall.which, selectCall.y)
              IN IF found = {} THEN selectCall.val = -1
                 ELSE /\ selectCall.val \in found
                      /\ \A p \in found : selectCall.val <= p
                      /\ selectCall.y >= 1 =>
                            rankDirectory.data[selectCall.val + 1] = selectCall.which

\* select(0, 3) returned the position of the third 0 of an array that runs
\* over more than one section of the directory
C26_Witness ==
    /\ "returned" \in DOMAIN selectCall
    /\ selectCall.returned
    /\ selectCall.which = 0 /\ selectCall.y = 3
    /\ rankDirectory.numBits > rankDirectory.l1Size
    /\ selectCall.val >= rankDirectory.l1Size
    /\ selectCall.probes > 1

\* ------------------------------------------------------------------------
\* Game service: the game kept in the realtime database (gameService.ts)
\* ------------------------------------------------------------------------
MaxRound == 2      \* finalizeRound is called while currentRound is below this
MaxCalls == 4      \* the calls of the service counted in one behaviour
MaxTime == 4       \* Date.now() stops advancing here

\* config of createNewGame, in units of the model's clock
GameConfig == [timerDurationSeconds |-> 1, gracePeriodSeconds |-> 1, extraTime |-> 1]

botId == "bot_master"
Players == {"table_1"}

NoMoves == [p \in {} |-> Null]

\* A round of which no field is stored
EmptyRound ==
    [status |-> "NONE", boardSnapshot |-> Null, rack |-> <<>>, moves |-> NoMoves,
     startTime |-> 0, masterMove |-> Null]

\* data.rounds?.[n], every missing field read as undefined
RoundOf(rounds, n) == IF n \in DOMAIN rounds THEN rounds[n] ELSE EmptyRound

\* update of the path rounds/n
SetRound(rounds, n, round) ==
    [k \in DOMAIN rounds \cup {n} |-> IF k = n THEN round ELSE rounds[k]]

\* update of the path rounds/n with null
RemoveRound(rounds, n) == [k \in DOMAIN rounds \ {n} |-> rounds[k]]

\* update of the path rounds/n/moves/playerId
SetMove(moves, move) ==
    [p \in DOMAIN moves \cup {move.playerId} |->
        IF p = move.playerId THEN move ELSE moves[p]]

\* createNewGame, then updateRack unless the rack is empty: round 1 idle on
\* the empty board
NewGame(rack) ==
    [currentRound |-> 1,
     board |-> TilesOf(createInitialBoard),
     currentRack |-> rack,
     rounds |-> SetRound(<<>>, 1, [EmptyRound EXCEPT
                    !.status = "IDLE",
                    !.boardSnapshot = [tiles |-> TilesOf(createInitialBoard)],
                    !.rack = rack]),
     participants |-> [p \in {} |-> 0]]

\* The racks the master types and the plays sent or typed: a word through
\* the centre, a word outside the dictionary, a word hooked on the first one
GameRacks == {<<"C","A","S","A","S","A","S">>, <<"A","S","?","A","S","A","S">>}

PlayCA == [tiles |-> Tiles(<<"C","A">>), row |-> 7, col |-> 6, direction |-> "H"]
PlaySS == [tiles |-> Tiles(<<"S","S">>), row |-> 7, col |-> 7, direction |-> "H"]
PlayAS == [tiles |-> Tiles(<<"A","S">>), row |-> 7, col |-> 7, direction |-> "V"]

GamePlays == {PlayCA, PlaySS}

\* The PlayerMove a player's page sends (PlayerView.tsx, executeSubmit); the
\* id, which is the time of the click, tells two sends apart
PlayerMove(playerId, play, roundNumber, t) ==
    [id |-> <<playerId, t, play>>, playerId |-> playerId, tiles |-> play.tiles,
     row |-> play.row, col |-> play.col, direction |-> play.direction,
     score |-> 0, isValid |-> FALSE, error |-> Null, timestamp |-> t,
     roundNumber |-> roundNumber, isManual |-> FALSE, isMasterMove |-> FALSE]

\* The move typed by the master in the review panel (executeApplyRound)
ManualMove(play, roundNumber, t) ==
    [PlayerMove("manual", play, roundNumber, t) EXCEPT
        !.id = <<"manual", t, play>>, !.isMasterMove = TRUE]

\* calculateMoveScore on a stored board
MoveScore(tilesOnBoard, rack, move) ==
    calculateMoveScore(trieInstance, Cells(tilesOnBoard), move.tiles, rack,
                       move.row, move.col, move.direction)

\* finalizeRound, "Calculate Scores for players": one move of the snapshot
isLate(round, move, t) ==
    LET roundStartTime == IF round.startTime # 0 THEN round.startTime ELSE t
        roundEndTime == roundStartTime + GameConfig.timerDurationSeconds
    IN /\ ~move.isMasterMove
       /\ ~move.isManual
       /\ roundStartTime # 0
       /\ move.timestamp > roundEndTime + GameConfig.gracePeriodSeconds

UpdatedMoveOf(move, res, late, isChosen) ==
    IF late /\ ~isChosen
    THEN [move EXCEPT !.score = 0, !.isValid = FALSE, !.error = [kind |-> "Fora de temps"]]
    ELSE IF res.isValid \/ isChosen
    THEN [move EXCEPT !.score = res.score, !.isValid = TRUE,
                      !.error = IF isChosen THEN Null ELSE res.error]
    ELSE [move EXCEPT !.score = 0, !.isValid = FALSE, !.error = res.error]

UpdatedMove(data, masterMove, move, t) ==
    UpdatedMoveOf(move,
                  MoveScore(data.board, RoundOf(data.rounds, data.currentRound).rack, move),
                  isLate(RoundOf(data.rounds, data.currentRound), move, t),
                  move.id = masterMove.id)

\* The moves of the round in the database after the scored moves of the
\* snapshot are written to their paths
RECURSIVE WriteMoves(_, _, _, _, _)
WriteMoves(moves, data, masterMove, t, pids) ==
    IF pids = {} THEN moves
    ELSE LET p == CHOOSE q \in pids : TRUE
         IN WriteMoves(SetMove(moves,
                               UpdatedMove(data, masterMove,
                                           RoundOf(data.rounds, data.currentRound).moves[p], t)),
                       data, masterMove, t, pids \ {p})

\* finalizeRound, the master move as recorded
FinalMasterMove(data, masterMove, t) ==
    [masterMove EXCEPT
        !.id = <<"auto", t, masterMove.id>>, !.playerId = "bot", !.timestamp = t,
        !.score = MoveScore(data.board,
                            RoundOf(data.rounds, data.currentRound).rack, masterMove).score,
        !.isValid = TRUE]

\* finalizeRound, "Generate New Board" and "Generate New Rack"
NewBoardOf(data, move) ==
    TilesOf(PlaceTiles(Cells(data.board), move.tiles, move.row, move.col, move.direction))

NewRackOf(data, move) ==
    RackLeft(RoundOf(data.rounds, data.currentRound).rack,
             TilesUsed(Cells(data.board), move.tiles, move.row, move.col, move.direction, 1))

\* finalizeRound: the database d after the one update() computed from the
\* snapshot data
finalizeRoundUpdate(d, data, masterMove, t) ==
    LET n == data.currentRound
        old == RoundOf(d.rounds, n)
        completed == [old EXCEPT
                         !.status = "COMPLETED",
                         !.masterMove = FinalMasterMove(data, masterMove, t),
                         !.moves = WriteMoves(old.moves, data, masterMove, t,
                                              DOMAIN RoundOf(data.rounds, n).moves)]
        next == [EmptyRound EXCEPT
                    !.status = "IDLE",
                    !.boardSnapshot = [tiles |-> NewBoardOf(data, masterMove)],
                    !.rack = NewRackOf(data, masterMove)]
    IN [d EXCEPT !.rounds = SetRound(SetRound(d.rounds, n, completed), n + 1, next),
                 !.currentRound = n + 1,
                 !.board = NewBoardOf(data, masterMove),
                 !.currentRack = NewRackOf(data, masterMove)]

\* recalculateAllScores: the totals computed from the snapshot data
TotalOf(data, pid) ==
    Sum([n \in DOMAIN data.rounds |->
            IF pid \in DOMAIN data.rounds[n].moves THEN data.rounds[n].moves[pid].score ELSE 0],
        DOMAIN data.rounds)

BotTotalOf(data) ==
    Sum([n \in DOMAIN data.rounds |->
            IF data.rounds[n].masterMove # Null THEN data.rounds[n].masterMove.score ELSE 0],
        DOMAIN data.rounds)

recalculateAllScores(d, data) ==
    [d EXCEPT !.participants =
        [pid \in DOMAIN d.participants \cup DOMAIN data.participants \cup {botId} |->
            IF pid = botId THEN BotTotalOf(data)
            ELSE IF pid \in DOMAIN data.participants THEN TotalOf(data, pid)
            ELSE d.participants[pid]]]

\* deleteLastRound: the database d after the update() computed from data
deleteLastRoundUpdate(d, data) ==
    LET currentRound == data.currentRound
        prevRound == currentRound - 1
        removed == RemoveRound(d.rounds, currentRound)
    IN IF prevRound \notin DOMAIN data.rounds
       THEN [d EXCEPT !.rounds = removed, !.currentRound = prevRound]
       ELSE [d EXCEPT
                !.rounds = SetRound(removed, prevRound,
                               [RoundOf(removed, prevRound) EXCEPT !.status = "REVIEW"]),
                !.currentRound = prevRound,
                !.board = IF "tiles" \in DOMAIN data.rounds[prevRound].boardSnapshot
                          THEN data.rounds[prevRound].boardSnapshot.tiles ELSE @,
                !.currentRack = IF data.rounds[prevRound].rack # <<>>
                                THEN data.rounds[prevRound].rack ELSE @]

\* calculateRemainingBag(board, currentRack).length: the tiles of the
\* distribution that are neither on the board nor on the rack
TILE_COUNTS ==
    [ch \in {"A","B","C","C~","D","E","F","G","H","I","J","L","L/","M","N","O","P",
             "R","S","T","U","U^","V","X","Y'","Z","?"} |->
        CASE ch = "A" -> 12 [] ch = "E" -> 13
          [] ch \in {"I", "R", "S"} -> 8
          [] ch = "N" -> 6
          [] ch \in {"O", "T"} -> 5
          [] ch \in {"L", "U"} -> 4
          [] ch \in {"C", "D", "M"} -> 3
          [] ch \in {"B", "G", "P", "?"} -> 2
          [] OTHER -> 1]

BagKey(tile) == IF tile.isBlank THEN "?" ELSE toUpperCase(tile.char)

UsedCount(tilesOnBoard, rack, ch) ==
    Cardinality({p \in DOMAIN tilesOnBoard : BagKey(tilesOnBoard[p]) = ch})
    + Cardinality({i \in 1..Len(rack) : toUpperCase(rack[i]) = ch})

RemainingBagLength(tilesOnBoard, rack) ==
    Sum([ch \in DOMAIN TILE_COUNTS |->
            IF TILE_COUNTS[ch] > UsedCount(tilesOnBoard, rack, ch)
            THEN TILE_COUNTS[ch] - UsedCount(tilesOnBoard, rack, ch) ELSE 0],
        DOMAIN TILE_COUNTS)

\* The calls of the master's page that are suspended at an await
MasterTasks == {k \in tasks : k.op # "submitMove"}

Task(op, step, data, move) == [op |-> op, step |-> step, data |-> data, move |-> move]

\* The history of the game: a move sent; a call of the master returned,
\* deleteLastRound right after finalizeRound being an undo
Sent(move) ==
    [history EXCEPT !.sent =
        [k \in DOMAIN @ \cup {<<move.roundNumber, move.playerId>>} |->
            IF k = <<move.roundNumber, move.playerId>> THEN move ELSE @[k]]]

\* One more call of the service is made
Called(h) == [h EXCEPT !.calls = @ + 1]

Returned(op) ==
    IF op = "deleteLastRound" /\ history.op = "finalizeRound"
    THEN [history EXCEPT !.op = "undo"]
    ELSE IF op = "finalizeRound" THEN [history EXCEPT !.op = op, !.atDelete = Null]
    ELSE [history EXCEPT !.op = op, !.atFinalize = Null, !.atDelete = Null]

GameIdle ==
    UNCHANGED <<trieInstance, board, currentRack, pc, call, scoreResult, bestMoves, dictVars, firstCall, inputVars, gameBoard, selectVars>>

\* Date.now() advances past the timer and the grace period of a round that
\* is open
TimeStep == GameConfig.timerDurationSeconds + GameConfig.gracePeriodSeconds + 1

Tick ==
    /\ now + TimeStep <= MaxTime
    /\ now' = now + TimeStep
    /\ UNCHANGED <<db, tasks, history>>
    /\ GameIdle

\* submitMove(gameId, move), up to the set() of the move
SubmitMove(playerId, play) ==
    /\ history.calls < MaxCalls
    /\ \A k \in tasks : k.op = "submitMove" => k.move.playerId # playerId
    /\ db' = [db EXCEPT !.rounds =
                 SetRound(@, db.currentRound,
                     [RoundOf(@, db.currentRound) EXCEPT
                         !.moves = SetMove(@, PlayerMove(playerId, play, db.currentRound, now))])]
    /\ tasks' = tasks \cup
                 {Task("submitMove", "register", Null, PlayerMove(playerId, play, db.currentRound, now))}
    /\ history' = Called(Sent(PlayerMove(playerId, play, db.currentRound, now)))
    /\ UNCHANGED now
    /\ GameIdle

\* submitMove, registerParticipant: the player is listed, the total kept
RegisterParticipant(k) ==
    /\ k.op = "submitMove"
    /\ db' = [db EXCEPT !.participants =
                 [p \in DOMAIN @ \cup {k.move.playerId} |->
                     IF p \in DOMAIN @ THEN @[p] ELSE 0]]
    /\ tasks' = tasks \ {k}
    /\ UNCHANGED <<now, history>>
    /\ GameIdle

\* A call of the master's page reads what it needs and is suspended
ReadFor(op, data, move, limit) ==
    /\ history.calls < MaxCalls
    /\ Cardinality(MasterTasks) < limit
    /\ tasks' = tasks \cup {Task(op, "update", data, move)}
    /\ UNCHANGED <<db, now>>
    /\ GameIdle

\* openRound(gameId): the snapshot is read; a rack that is not full while
\* the bag has tiles throws
OpenRoundRead(limit) ==
    /\ ~(RemainingBagLength(db.board, db.currentRack) > 0 /\ Len(db.currentRack) < 7)
    /\ ReadFor("openRound", db, Null, limit)
    /\ history' = Called(history)

OpenRoundUpdate(k) ==
    /\ k.op = "openRound"
    /\ db' = [db EXCEPT !.rounds =
                 SetRound(@, k.data.currentRound,
                     [RoundOf(@, k.data.currentRound) EXCEPT
                         !.status = "PLAYING", !.startTime = now])]
    /\ tasks' = tasks \ {k}
    /\ history' = Returned("openRound")
    /\ UNCHANGED now
    /\ GameIdle

\* closeRound(gameId): currentRound is read, then the status is written
CloseRoundRead(limit) ==
    /\ ReadFor("closeRound", [currentRound |-> db.currentRound], Null, limit)
    /\ history' = Called(history)

CloseRoundUpdate(k) ==
    /\ k.op = "closeRound"
    /\ db' = [db EXCEPT !.rounds =
                 SetRound(@, k.data.currentRound,
                     [RoundOf(@, k.data.currentRound) EXCEPT !.status = "REVIEW"])]
    /\ tasks' = tasks \ {k}
    /\ history' = Returned("closeRound")
    /\ UNCHANGED now
    /\ GameIdle

\* reopenRound(gameId)
ReopenRoundRead(limit) ==
    /\ ReadFor("reopenRound", db, Null, limit)
    /\ history' = Called(history)

ReopenRoundUpdate(k) ==
    /\ k.op = "reopenRound"
    /\ db' = [db EXCEPT !.rounds =
                 SetRound(@, k.data.currentRound,
                     [RoundOf(@, k.data.currentRound) EXCEPT
                         !.status = "PLAYING",
                         !.startTime = now + GameConfig.extraTime
                                       - GameConfig.timerDurationSeconds])]
    /\ tasks' = tasks \ {k}
    /\ history' = Returned("reopenRound")
    /\ UNCHANGED now
    /\ GameIdle

\* updateRack(gameId, newRack); typing the rack is not counted as a call
UpdateRackRead(newRack, limit) ==
    /\ Cardinality(MasterTasks) < limit
    /\ tasks' = tasks \cup {Task("updateRack", "update", [currentRound |-> db.currentRound], newRack)}
    /\ UNCHANGED <<db, now, history>>
    /\ GameIdle

UpdateRackUpdate(k) ==
    /\ k.op = "updateRack"
    /\ db' = [db EXCEPT !.rounds =
                 SetRound(@, k.data.currentRound,
                     [RoundOf(@, k.data.currentRound) EXCEPT !.rack = k.move]),
                        !.currentRack = k.move]
    /\ tasks' = tasks \ {k}
    /\ history' = Returned("updateRack")
    /\ UNCHANGED now
    /\ GameIdle

\* The master moves the review panel hands to finalizeRound
\* (OnlinePlayerView.tsx, executeApplyRound): a candidate of the list, which
\* can be selected when it is valid, or the move the master typed
Candidates ==
    {m \in {RoundOf(db.rounds, db.currentRound).moves[p] :
               p \in DOMAIN RoundOf(db.rounds, db.currentRound).moves} :
        MoveScore(db.board, db.currentRack, m).isValid}

\* finalizeRound(gameId, masterMove): the snapshot is read
FinalizeRoundRead(masterMove, limit) ==
    /\ db.currentRound < MaxRound
    /\ ~MoveScore(db.board, RoundOf(db.rounds, db.currentRound).rack, masterMove).thrown
    /\ ReadFor("finalizeRound", db, masterMove, limit)
    /\ history' = [Called(history) EXCEPT !.atFinalize =
                      [currentRound |-> db.currentRound, board |-> db.board,
                       currentRack |-> db.currentRack,
                       participants |-> DOMAIN db.participants]]

\* finalizeRound: the one update() of the round, the next round, the board
\* and the rack
FinalizeRoundUpdate(k) ==
    /\ k.op = "finalizeRound" /\ k.step = "update"
    /\ db' = finalizeRoundUpdate(db, k.data, k.move, now)
    /\ tasks' = (tasks \ {k}) \cup {Task(k.op, "recalculate", Null, Null)}
    /\ UNCHANGED <<now, history>>
    /\ GameIdle

\* deleteLastRound(gameId): the snapshot is read; nothing is done at round 1
DeleteLastRoundRead(limit) ==
    /\ history.calls < MaxCalls
    /\ Cardinality(MasterTasks) < limit
    /\ tasks' = IF db.currentRound <= 1 THEN tasks
                ELSE tasks \cup {Task("deleteLastRound", "update", db, Null)}
    /\ history' = IF db.currentRound <= 1
                  THEN Called([Returned("deleteLastRound") EXCEPT !.atDelete = db])
                  ELSE Called(history)
    /\ UNCHANGED <<db, now>>
    /\ GameIdle

DeleteLastRoundUpdate(k) ==
    /\ k.op = "deleteLastRound" /\ k.step = "update"
    /\ db' = deleteLastRoundUpdate(db, k.data)
    /\ tasks' = (tasks \ {k}) \cup
                 (IF k.data.currentRound - 1 \in DOMAIN k.data.rounds
                  THEN {Task(k.op, "recalculate", Null, Null)} ELSE {})
    /\ history' = IF k.data.currentRound - 1 \in DOMAIN k.data.rounds
                  THEN history ELSE Returned("deleteLastRound")
    /\ UNCHANGED now
    /\ GameIdle

\* recalculateAllScores(gameId): the snapshot is read, then the participants
\* are written
RecalculateRead(k) ==
    /\ k.step = "recalculate"
    /\ tasks' = (tasks \ {k}) \cup {Task(k.op, "scores", db, Null)}
    /\ UNCHANGED <<db, now, history>>
    /\ GameIdle

RecalculateUpdate(k) ==
    /\ k.step = "scores"
    /\ db' = recalculateAllScores(db, k.data)
    /\ tasks' = tasks \ {k}
    /\ history' = Returned(k.op)
    /\ UNCHANGED now
    /\ GameIdle

InitGame ==
    /\ trieInstance = DISC
    /\ currentDictionaryName = "DISC"
    /\ currentDictionaryData = Payload(DISC_WORDS, "1")
    /\ loads = {}
    /\ lastLoad = Off
    /\ firstCall = Off
    /\ gameBoard = Off
    /\ NoSelect
    /\ board = TilesOf(createInitialBoard)
    /\ currentRack = <<>>
    /\ pc = "ready"
    /\ call = NoCall
    /\ scoreResult = Null
    /\ bestMoves = <<>>
    /\ inputWord = <<>>
    /\ parsedTiles = <<>>
    /\ \E rack \in GameRacks \cup {<<>>} : db = NewGame(rack)
    /\ tasks = {}
    /\ now = 1
    /\ history = [sent |-> <<>>, op |-> "createNewGame", calls |-> 0,
                  atFinalize |-> Null, atDelete |-> Null]

\* The players send and resend while the master opens the round and applies
\* a move; one master, whose calls start when the call before has returned
NextGame ==
    \/ Tick
    \/ \E playerId \in Players, play \in GamePlays : SubmitMove(playerId, play)
    \/ \E k \in tasks : RegisterParticipant(k)
    \/ OpenRoundRead(1)
    \/ \E play \in GamePlays : FinalizeRoundRead(ManualMove(play, db.currentRound, now), 1)
    \/ \E m \in Candidates : FinalizeRoundRead(m, 1)
    \/ \E k \in tasks : OpenRoundUpdate(k)
    \/ \E k \in tasks : FinalizeRoundUpdate(k)
    \/ \E k \in tasks : RecalculateRead(k)
    \/ \E k \in tasks : RecalculateUpdate(k)

SpecGame == InitGame /\ [][NextGame]_vars

\* The master alone: rounds applied and undone
NextUndo ==
    \/ OpenRoundRead(1)
    \/ CloseRoundRead(1)
    \/ \E newRack \in GameRacks : UpdateRackRead(newRack, 1)
    \/ \E play \in GamePlays \cup {PlayAS} : FinalizeRoundRead(ManualMove(play, db.currentRound, now), 1)
    \/ DeleteLastRoundRead(1)
    \/ \E k \in tasks : OpenRoundUpdate(k)
    \/ \E k \in tasks : CloseRoundUpdate(k)
    \/ \E k \in tasks : UpdateRackUpdate(k)
    \/ \E k \in tasks : FinalizeRoundUpdate(k)
    \/ \E k \in tasks : DeleteLastRoundUpdate(k)
    \/ \E k \in tasks : RecalculateRead(k)
    \/ \E k \in tasks : RecalculateUpdate(k)

SpecUndo == InitGame /\ [][NextUndo]_vars

\* Two pages act for the master (the timer of one closes the round while the
\* other applies a move): calls overlap
NextRace ==
    \/ OpenRoundRead(2)
    \/ CloseRoundRead(2)
    \/ ReopenRoundRead(2)
    \/ FinalizeRoundRead(ManualMove(PlayCA, db.currentRound, now), 2)
    \/ DeleteLastRoundRead(2)
    \/ \E k \in tasks : OpenRoundUpdate(k)
    \/ \E k \in tasks : CloseRoundUpdate(k)
    \/ \E k \in tasks : ReopenRoundUpdate(k)
    \/ \E k \in tasks : FinalizeRoundUpdate(k)
    \/ \E k \in tasks : DeleteLastRoundUpdate(k)
    \/ \E k \in tasks : RecalculateRead(k)
    \/ \E k \in tasks : RecalculateUpdate(k)

SpecRace == InitGame /\ [][NextRace]_vars

\* ------------------------------------------------------------------------
\* Claims about the game service
\* ------------------------------------------------------------------------
\* The move the database holds for a player in a round
StoredMove(n, playerId) == RoundOf(db.rounds, n).moves[playerId]

\* C22: when a player sends again in a round, the round keeps one move of the
\* player, the one sent last; no call that runs at the same time (finalizeRound
\* reading the moves and writing them back scored) puts an earlier one in its
\* place.
C22_LastMoveKept ==
    \A k \in DOMAIN history.sent :
        k[1] \in DOMAIN db.rounds =>
            /\ k[2] \in DOMAIN db.rounds[k[1]].moves
            /\ StoredMove(k[1], k[2]).id = history.sent[k].id

\* The score the rules give a stored move of round n: the validator's score on
\* the round's board and rack when the move is valid and was sent by
\* start + timer + grace of a round that was opened, else 0
RuleScore(n, move) ==
    IF /\ db.rounds[n].startTime # 0
       /\ move.timestamp > db.rounds[n].startTime + GameConfig.timerDurationSeconds
                           + GameConfig.gracePeriodSeconds
    THEN 0
    ELSE IF MoveScore(db.rounds[n].boardSnapshot.tiles, db.rounds[n].rack, move).isValid
    THEN MoveScore(db.rounds[n].boardSnapshot.tiles, db.rounds[n].rack, move).score
    ELSE 0

RuleTotal(playerId) ==
    Sum([n \in DOMAIN db.rounds |->
            IF playerId \in DOMAIN db.rounds[n].moves
            THEN RuleScore(n, db.rounds[n].moves[playerId]) ELSE 0],
        DOMAIN db.rounds)

\* finalizeRound has returned and nothing was sent since it read the game
Finalized ==
    /\ tasks = {}
    /\ history.op = "finalizeRound"
    /\ DOMAIN RoundOf(db.rounds, db.currentRound).moves = {}

TotalIsSumOfStoredScores ==
    Finalized =>
        \A playerId \in history.atFinalize.participants \ {botId} :
            db.participants[playerId] = TotalOf(db, playerId)

\* C24: finalizeRound of round N followed by deleteLastRound leaves
\* currentRound = N, round N + 1 removed, the global board and rack as they
\* were right before finalizeRound, and round N in REVIEW; deleteLastRound
\* called at round 1 changes nothing.
C24_UndoRestores ==
    /\ (tasks = {} /\ history.op = "undo") =>
          /\ db.currentRound = history.atFinalize.currentRound
          /\ db.currentRound + 1 \notin DOMAIN db.rounds
          /\ db.board = history.atFinalize.board
          /\ db.currentRack = history.atFinalize.currentRack
          /\ RoundOf(db.rounds, db.currentRound).status = "REVIEW"
    /\ (tasks = {} /\ history.op = "deleteLastRound" /\ history.atDelete # Null) =>
          db = history.atDelete

\* The undo restores the pointer, the board and the status in every case, and
\* the global rack when round N has a rack stored
UndoRestoresStoredRack ==
    (tasks = {} /\ history.op = "undo") =>
        /\ db.currentRound = history.atFinalize.currentRound
        /\ db.currentRound + 1 \notin DOMAIN db.rounds
        /\ db.board = history.atFinalize.board
        /\ RoundOf(db.rounds, db.currentRound).status = "REVIEW"
        /\ RoundOf(db.rounds, db.currentRound).rack # <<>> =>
               db.currentRack = history.atFinalize.currentRack

\* The validator's verdict on the master move recorded for round n, on the
\* board and the rack the round was played with
MasterAccepted(n) ==
    MoveScore(db.rounds[n].boardSnapshot.tiles, db.rounds[n].rack,
              db.rounds[n].masterMove).isValid

CompletedRounds ==
    {n \in DOMAIN db.rounds : db.rounds[n].status = "COMPLETED" /\ n + 1 \in DOMAIN db.rounds}

\* C28: finalizeRound applies to the board, and records as masterMove with
\* isValid = true, only a move that calculateMoveScore accepts on the round's
\* board and rack: every tile on the board was placed by an accepted master
\* move.
C28_MasterMoveAccepted ==
    \A n \in CompletedRounds :
        (db.rounds[n].masterMove.isValid
         \/ db.rounds[n + 1].boardSnapshot.tiles # db.rounds[n].boardSnapshot.tiles)
            => MasterAccepted(n)

\* The master move is recorded with the validator's score for it
MasterScoreRecorded ==
    \A n \in CompletedRounds :
        db.rounds[n].masterMove.score =
            MoveScore(db.rounds[n].boardSnapshot.tiles, db.rounds[n].rack,
                      db.rounds[n].masterMove).score

\* The rack the validator leaves: each tile set on an empty cell is paid with
\* its letter, else with a '?'
RECURSIVE PaidRack(_, _, _, _, _, _, _)
PaidRack(bd, tiles, row, col, direction, i, rack) ==
    IF i > Len(tiles) THEN rack
    ELSE PaidRack(bd, tiles, row, col, direction, i + 1,
                  IF bd[row + (i - 1) * Dr(direction)][col + (i - 1) * Dc(direction)].tile = Null
                  THEN PayFromRack(rack, toUpperCase(tiles[i].char)).rack
                  ELSE rack)

\* C29: for an accepted master move, the rack of the next round is the rack of
\* the round less one tile for each cell the move fills, the wildcard being
\* taken exactly for the tiles the validator paid with a wildcard.
C29_RackConserved ==
    \A n \in CompletedRounds :
        MasterAccepted(n) =>
            db.rounds[n + 1].rack =
                PaidRack(Cells(db.rounds[n].boardSnapshot.tiles), db.rounds[n].masterMove.tiles,
                         db.rounds[n].masterMove.row, db.rounds[n].masterMove.col,
                         db.rounds[n].masterMove.direction, 1, db.rounds[n].rack)

\* When each placed tile is flagged as the validator paid it (a blank exactly
\* where the rack lacks the letter), the rack is conserved
PaidAsFlagged(n) ==
    \A i \in 1..Len(db.rounds[n].masterMove.tiles) :
        db.rounds[n].masterMove.tiles[i].isBlank
            = (toUpperCase(db.rounds[n].masterMove.tiles[i].char)
               \notin {db.rounds[n].rack[j] : j \in 1..Len(db.rounds[n].rack)})

RackConservedWhenFlagged ==
    \A n \in CompletedRounds :
        (MasterAccepted(n) /\ PaidAsFlagged(n)) =>
            db.rounds[n + 1].rack =
                PaidRack(Cells(db.rounds[n].boardSnapshot.tiles), db.rounds[n].masterMove.tiles,
                         db.rounds[n].masterMove.row, db.rounds[n].masterMove.col,
                         db.rounds[n].masterMove.direction, 1, db.rounds[n].rack)

\* C30: whatever the order and the overlap of openRound, closeRound,
\* reopenRound, finalizeRound and deleteLastRound, every round below
\* currentRound is COMPLETED and has a masterMove, and the round currentRound
\* exists and is not COMPLETED.
C30_RoundsInOrder ==
    /\ \A n \in 1..(db.currentRound - 1) :
          /\ n \in DOMAIN db.rounds
          /\ db.rounds[n].status = "COMPLETED"
          /\ db.rounds[n].masterMove # Null
    /\ db.currentRound \in DOMAIN db.rounds
    /\ db.rounds[db.currentRound].status # "COMPLETED"

====
